---- MODULE Spec2Model ----
(***************************************************************************)
(* A model of the distcache data plane and durability layer:               *)
(*   - the sharded storage engine (ShardedHashTable) and the cache service *)
(*     handlers that drive it (CacheServiceImpl),                          *)
(*   - the quorum coordinator over N replica servers,                      *)
(*   - the write-ahead log, the snapshot manager and the recovery manager. *)
(* Each subsystem has its own specification over the shared variables:     *)
(*   SpecEngine, SpecQuorum, SpecWAL.                                      *)
(***************************************************************************)
EXTENDS Integers, Sequences, FiniteSets, TLC

VARIABLES
    now,            \* wall clock, ms (CacheEntry::get_current_time_ms)
    storage,        \* the node's ShardedHashTable
    shard_mutex,    \* per shard: the thread holding Shard::mutex exclusively
    pc,             \* per server thread: where its handler stands
    frame,          \* per server thread: the locals of the running handler
    res,            \* per server thread: the response of its last handler
    nops,           \* per server thread: handlers completed
    known,          \* per client thread: the version it last read with GET
    gen,            \* per key: SET/DELETE/eviction events so far (history)
    set_gen,        \* per key: successful SETs so far (history)
    cas_batch,      \* per key and version: the concurrent CAS calls (history)
    replicas,       \* per replica address: that server's ShardedHashTable
    qres,           \* the result of the coordinator's last quorum operation
    qobs,           \* what that operation saw and did at the replicas (history)
    qlater,         \* values of the last successful quorum write and of the
                    \* write attempts after it (history)
    repairs,        \* read-repair threads detached and not yet run
    qops,           \* quorum operations performed
    config_,        \* QuorumCoordinator::config_: W, R and N
    wal_disk,       \* the WAL directory: log id -> the file's bytes on disk
    snap_disk,      \* the snapshot directory: snapshot id -> entries
    wal,            \* the process's WAL object (and its output stream)
    snapshots_,     \* SnapshotManager::snapshots_, the in-memory metadata
    phase,          \* "running" or "down": whether the node process is up
    sync_on_write,  \* WAL::Config::sync_on_write
    wlog,           \* what the node's log and recovery did so far (history)
    queue_,         \* ReplicationManager::queue_ on the primary
    follower,       \* per follower node: that node's ShardedHashTable
    inflight,       \* per follower node: batches whose RPC passed the
                    \* primary's deadline and whose handler has yet to run
    rlog,           \* what enqueues, sends and handlers did so far (history)
    nodes_,         \* MembershipManager::nodes_, node id -> NodeInfo
    event_callback_,\* whether a NodeEventCallback is registered
    nodes_to_check, \* the heartbeat worker's peers left in this scan
    mlog,           \* the callback's invocations and the last check (history)
    ring_,          \* the node's HashRing, shared by the managers
    failovers_,     \* FailoverManager::failovers_, the failover records
    total_failovers_, \* FailoverManager::total_failovers_
    fo,             \* per thread: where its InitiateFailover call stands
    flog,           \* what InitiateFailover and CancelFailover returned
                    \* (history)
    storage_,       \* RebalanceOrchestrator::storage_: the keys held locally
    old_ring_,      \* RebalanceOrchestrator::old_ring_
    new_ring_,      \* RebalanceOrchestrator::new_ring_
    jobs_,          \* RebalanceOrchestrator::jobs_, job id -> RebalanceJob
    job_counter_,   \* RebalanceOrchestrator::job_counter_
    remote,         \* per node: the keys its CacheService accepted by SET
    drain,          \* where the AdminService's DrainNode call stands
    rblog,          \* rebalance calls made so far (history)
    held,           \* per thread: the locks it holds, in the order taken
    lt,             \* per thread: where its iteration or migration stands
    net,            \* per thread: whether it has a network call in progress
    lklog,          \* operations begun so far (history)
    ringlog,        \* calls made on the ring directly (history)
    coordinator,    \* the CoordinatorServer: nodes_, ring_, ring_version_
    state_file,     \* the file at the coordinator's config_.storage_path
    peers,          \* per node: the ring version it last learned from the
                    \* coordinator
    clog,           \* the coordinator's last response and its restarts
                    \* (history)
    table,          \* a ShardedHashTable filled up to its memory cap
    clearing,       \* where a running ShardedHashTable::clear stands
    evlog,          \* the last call on that table and the order of the
                    \* accesses (history)
    owner,          \* per std::mutex of the managers: the thread that
                    \* holds it
    call,           \* per thread: the manager call it is inside
    callback_,      \* FailoverManager::callback_ is set
    retlog,         \* the calls that have returned (history)
    stats_,         \* RebalanceOrchestrator::stats_
    starting        \* the jobs a start_rebalance call has created and not
                    \* yet counted in stats_

engine_vars == <<now, storage, shard_mutex, pc, frame, res, nops, known,
                 gen, set_gen, cas_batch>>

service_vars == <<shard_mutex, pc, frame, res, nops, known, gen, set_gen,
                  cas_batch>>

engine_only_vars == <<storage, service_vars>>

wal_vars == <<wal_disk, snap_disk, wal, snapshots_, phase, sync_on_write,
              wlog>>

quorum_vars == <<replicas, qres, qobs, qlater, repairs, qops, config_>>

replication_vars == <<queue_, follower, inflight, rlog>>

membership_vars == <<nodes_, event_callback_, nodes_to_check, mlog>>

failover_vars == <<ring_, failovers_, total_failovers_, fo, flog>>

rebalance_vars == <<storage_, old_ring_, new_ring_, jobs_, job_counter_,
                    remote, drain, rblog>>

lock_vars == <<held, lt, net, lklog>>

coordinator_vars == <<coordinator, state_file, peers, clog>>

eviction_vars == <<table, clearing, evlog>>

reentry_vars == <<owner, call, callback_, retlog>>

stats_vars == <<stats_, starting>>

local_vars == <<eviction_vars, reentry_vars, stats_vars>>

admin_vars == <<rebalance_vars, lock_vars, ringlog, coordinator_vars,
                local_vars>>

cluster_vars == <<replication_vars, membership_vars, failover_vars,
                  admin_vars>>

-----------------------------------------------------------------------------
(* Bounds and small input sets *)

Keys == {"k1", "k2"}
Values == {"a", "b"}
Threads == {"t1", "t2"}

\* The value a client thread writes
ValueOf(t) == IF t = "t1" THEN "a" ELSE "b"

\* std::optional without a value (ttl_seconds, expires_at_ms)
Nullopt == -1

\* TTLs a request can carry: none, or 0 seconds
TTLs == {Nullopt, 0}

\* Clock readings
Times == {0, 1}

\* handlers run in all
MaxOps == 3

\* expected versions a CAS request can carry
Versions == {1, 2}

\* ShardedHashTable(num_shards, max_memory_bytes)
num_shards == 2
max_memory_bytes == 40

\* sizeof(CacheEntry), in the abstract byte unit of the model
SizeofCacheEntry == 8

-----------------------------------------------------------------------------
(* CacheEntry *)

NoEntry ==
    [present |-> FALSE, value |-> "", ttl_seconds |-> Nullopt,
     expires_at_ms |-> Nullopt, version |-> 0, created_at_ms |-> 0]

\* CacheEntry(k, v, ttl): version 1, created now, expiry from the TTL
NewCacheEntry(v, ttl, t) ==
    [present |-> TRUE, value |-> v, ttl_seconds |-> ttl,
     expires_at_ms |-> IF ttl # Nullopt THEN t + ttl * 1000 ELSE Nullopt,
     version |-> 1, created_at_ms |-> t]

is_expired(e, t) ==
    IF e.expires_at_ms = Nullopt THEN FALSE ELSE t > e.expires_at_ms

total_size(k, e) == SizeofCacheEntry + Len(k) + Len(e.value)

-----------------------------------------------------------------------------
(* ShardedHashTable *)

\* std::hash<std::string>: a fixed function of the key
KeyHash(k) == CASE k = "k1" -> 0 [] k = "k2" -> 1 [] OTHER -> 2

get_shard_index(k) == KeyHash(k) % num_shards

Shards == 0 .. (num_shards - 1)

EmptyEngine ==
    [data |-> [k \in Keys |-> NoEntry],
     lru_list |-> [s \in Shards |-> <<>>],
     memory_bytes |-> [s \in Shards |-> 0],
     total_memory_bytes |-> 0,
     total_entries |-> 0]

Remove(seq, k) == SelectSeq(seq, LAMBDA x : x # k)

\* lru_list.splice(begin, lru_list, it): move the key to the front
MoveToFront(seq, k) == <<k>> \o Remove(seq, k)

\* size_t arithmetic wraps around; SizeMax stands for 2^64, scaled down
SizeMax == 256

needs_eviction(eng, new_entry_size) ==
    ((eng.total_memory_bytes + new_entry_size) % SizeMax) > max_memory_bytes

RECURSIVE evict_if_needed(_, _, _)
evict_if_needed(eng, s, required_space) ==
    IF needs_eviction(eng, required_space) /\ eng.lru_list[s] # <<>>
    THEN LET lru_key == eng.lru_list[s][Len(eng.lru_list[s])]
             rest == SubSeq(eng.lru_list[s], 1, Len(eng.lru_list[s]) - 1)
         IN  IF eng.data[lru_key].present
             THEN LET entry_size == total_size(lru_key, eng.data[lru_key])
                  IN  evict_if_needed(
                        [eng EXCEPT !.data[lru_key] = NoEntry,
                                    !.lru_list[s] = rest,
                                    !.memory_bytes[s] = (@ - entry_size) % SizeMax,
                                    !.total_memory_bytes = (@ - entry_size) % SizeMax,
                                    !.total_entries = (@ - 1) % SizeMax],
                        s, required_space)
             ELSE evict_if_needed([eng EXCEPT !.lru_list[s] = rest],
                                  s, required_space)
    ELSE eng

\* ShardedHashTable::set: replace in place, or evict and insert
EngineSet(eng, k, entry) ==
    LET s == get_shard_index(k)
        entry_size == total_size(k, entry)
    IN  IF eng.data[k].present
        THEN LET old_size == total_size(k, eng.data[k])
             IN  [eng EXCEPT !.data[k] = entry,
                             !.lru_list[s] = MoveToFront(@, k),
                             !.memory_bytes[s] = (@ - old_size + entry_size) % SizeMax,
                             !.total_memory_bytes = (@ - old_size + entry_size) % SizeMax]
        ELSE LET ev == IF needs_eviction(eng, entry_size)
                       THEN evict_if_needed(eng, s, entry_size)
                       ELSE eng
             IN  [ev EXCEPT !.data[k] = entry,
                            !.lru_list[s] = <<k>> \o @,
                            !.memory_bytes[s] = (@ + entry_size) % SizeMax,
                            !.total_memory_bytes = (@ + entry_size) % SizeMax,
                            !.total_entries = (@ + 1) % SizeMax]

\* ShardedHashTable::del
EngineDel(eng, k) ==
    LET s == get_shard_index(k)
    IN  IF ~eng.data[k].present
        THEN eng
        ELSE LET entry_size == total_size(k, eng.data[k])
             IN  [eng EXCEPT !.data[k] = NoEntry,
                             !.lru_list[s] = Remove(@, k),
                             !.memory_bytes[s] = (@ - entry_size) % SizeMax,
                             !.total_memory_bytes = (@ - entry_size) % SizeMax,
                             !.total_entries = (@ - 1) % SizeMax]

\* ShardedHashTable::get, as the caller sees it: the entry if present and live
EngineGet(eng, k, t) ==
    IF eng.data[k].present /\ ~is_expired(eng.data[k], t)
    THEN eng.data[k] ELSE NoEntry

\* get's effect on the shard: the key moves to the front of the LRU list
EngineTouch(eng, k, t) ==
    IF eng.data[k].present /\ ~is_expired(eng.data[k], t)
    THEN [eng EXCEPT !.lru_list[get_shard_index(k)] = MoveToFront(@, k)]
    ELSE eng

\* Mutant of VersionDiffers: only an older stored version is a mismatch
VersionDiffers_OnlyOlder(actual_version, expected_version) ==
    actual_version < expected_version

\* The version comparison of compare_and_swap
VersionDiffers(actual_version, expected_version) ==
    actual_version # expected_version

\* The outcome of compare_and_swap's checks, before any write
CASCheck(eng, k, expected_version, t) ==
    IF ~eng.data[k].present
        THEN [success |-> FALSE, new_version |-> 0, actual_version |-> 0,
              error |-> "Key not found"]
    ELSE IF is_expired(eng.data[k], t)
        THEN [success |-> FALSE, new_version |-> 0, actual_version |-> 0,
              error |-> "Key expired"]
    ELSE IF VersionDiffers(eng.data[k].version, expected_version)
        THEN [success |-> FALSE, new_version |-> 0,
              actual_version |-> eng.data[k].version,
              error |-> "Version mismatch"]
    ELSE [success |-> TRUE, new_version |-> eng.data[k].version + 1,
          actual_version |-> 0, error |-> ""]

\* The write of compare_and_swap: new_entry gets version actual + 1
CASWrite(eng, k, actual_version, new_entry) ==
    LET s == get_shard_index(k)
        old_size == total_size(k, eng.data[k])
        e == [new_entry EXCEPT !.version = actual_version + 1]
    IN  [eng EXCEPT !.data[k] = e,
                    !.lru_list[s] = MoveToFront(@, k),
                    !.memory_bytes[s] = (@ - old_size + total_size(k, e)) % SizeMax,
                    !.total_memory_bytes = (@ - old_size + total_size(k, e)) % SizeMax]

\* ShardedHashTable::compare_and_swap as one atomic operation
EngineCAS(eng, k, expected_version, new_entry, t) ==
    LET r == CASCheck(eng, k, expected_version, t)
    IN  [eng |-> IF r.success
                 THEN CASWrite(eng, k, eng.data[k].version, new_entry)
                 ELSE eng,
         result |-> r]

-----------------------------------------------------------------------------
(* The cache service: handler threads over one storage engine              *)
(* (CacheServiceImpl::Get / Set / Delete / CompareAndSwap).                *)

NoFrame == [op |-> "none"]

NoRes == [op |-> "none", key |-> "", success |-> FALSE, found |-> FALSE,
          value |-> "", version |-> 0, actual_version |-> 0, error |-> "",
          expected |-> 0, stale |-> FALSE, live |-> FALSE]

NoKnown == [key |-> "", version |-> 0, set_gen |-> 0]

\* Handlers entered so far
Started == LET RECURSIVE Sum(_)
               Sum(S) == IF S = {} THEN 0
                         ELSE LET x == CHOOSE y \in S : TRUE
                              IN  nops[x] + (IF pc[x] = "idle" THEN 0 ELSE 1)
                                  + Sum(S \ {x})
           IN  Sum(Threads)

ZeroBatch == [called |-> 0, done |-> 0, succ |-> 0, mism |-> 0,
              new_version |-> 0]

\* Mutant of CanLockUnique: the lock excludes nobody
CanLockUnique_NoExclusion(s) == TRUE

\* std::unique_lock<std::shared_mutex> lock(shard.mutex) can be taken
CanLockUnique(s) == shard_mutex[s] = "free"

\* std::shared_lock<std::shared_mutex> lock(shard.mutex) can be taken
CanLockShared(s) == shard_mutex[s] = "free"

\* History: the keys an engine step removed or replaced by eviction
Evicted(old, new, k) ==
    {x \in Keys \ {k} : old.data[x].present /\ ~new.data[x].present}

BumpGen(g, ks) == [x \in Keys |-> IF x \in ks THEN g[x] + 1 ELSE g[x]]

ResetBatch(b, ks) ==
    [x \in Keys |-> IF x \in ks THEN [v \in Versions |-> ZeroBatch] ELSE b[x]]

EngineInit ==
    /\ now = 0
    /\ storage = EmptyEngine
    /\ shard_mutex = [s \in Shards |-> "free"]
    /\ pc = [t \in Threads |-> "idle"]
    /\ frame = [t \in Threads |-> NoFrame]
    /\ res = [t \in Threads |-> NoRes]
    /\ nops = [t \in Threads |-> 0]
    /\ known = [t \in Threads |-> NoKnown]
    /\ gen = [k \in Keys |-> 0]
    /\ set_gen = [k \in Keys |-> 0]
    /\ cas_batch = [k \in Keys |-> [v \in Versions |-> ZeroBatch]]

\* The clock advances by one millisecond
Tick ==
    /\ now + 1 \in Times
    /\ now' = now + 1

\* CacheServiceImpl::Set: a fresh CacheEntry (version 1) replaces whatever
\* the key holds; the response always carries version 1.
Set(t, k, v, ttl) ==
    /\ pc[t] = "idle" /\ Started < MaxOps
    /\ CanLockUnique(get_shard_index(k))
    /\ LET eng == EngineSet(storage, k, NewCacheEntry(v, ttl, now))
           touched == {k} \cup Evicted(storage, eng, k)
       IN  /\ storage' = eng
           /\ gen' = BumpGen(gen, touched)
           /\ set_gen' = BumpGen(set_gen, {k})
           /\ cas_batch' = ResetBatch(cas_batch, touched)
           /\ known' = [known EXCEPT ![t] =
                  [key |-> k, version |-> 1, set_gen |-> set_gen[k] + 1]]
    /\ res' = [res EXCEPT ![t] = [NoRes EXCEPT !.op = "set", !.key = k,
                  !.success = TRUE, !.value = v, !.version = 1]]
    /\ nops' = [nops EXCEPT ![t] = @ + 1]
    /\ UNCHANGED <<now, shard_mutex, pc, frame>>

\* CacheServiceImpl::Delete
Delete(t, k) ==
    /\ pc[t] = "idle" /\ Started < MaxOps
    /\ CanLockUnique(get_shard_index(k))
    /\ storage' = EngineDel(storage, k)
    /\ gen' = IF storage.data[k].present THEN BumpGen(gen, {k}) ELSE gen
    /\ cas_batch' = IF storage.data[k].present
                    THEN ResetBatch(cas_batch, {k}) ELSE cas_batch
    /\ res' = [res EXCEPT ![t] = [NoRes EXCEPT !.op = "delete", !.key = k,
                  !.success = storage.data[k].present]]
    /\ nops' = [nops EXCEPT ![t] = @ + 1]
    /\ UNCHANGED <<now, shard_mutex, pc, frame, known, set_gen>>

\* CacheServiceImpl::Get, first half of ShardedHashTable::get: the lookup
\* under the shared lock; a miss returns at once.
GetCheck(t, k) ==
    /\ pc[t] = "idle" /\ Started < MaxOps
    /\ CanLockShared(get_shard_index(k))
    /\ IF EngineGet(storage, k, now).present
       THEN /\ pc' = [pc EXCEPT ![t] = "get_touch"]
            /\ frame' = [frame EXCEPT ![t] = [op |-> "get", key |-> k]]
            /\ UNCHANGED <<res, nops>>
       ELSE /\ res' = [res EXCEPT ![t] =
                          [NoRes EXCEPT !.op = "get", !.key = k]]
            /\ nops' = [nops EXCEPT ![t] = @ + 1]
            /\ UNCHANGED <<pc, frame>>
    /\ UNCHANGED <<now, storage, shard_mutex, known, gen, set_gen, cas_batch>>

\* Second half of ShardedHashTable::get: the lookup again under the unique
\* lock, the LRU touch, and the response (found, value, version).
GetTouch(t) ==
    /\ pc[t] = "get_touch"
    /\ CanLockUnique(get_shard_index(frame[t].key))
    /\ LET k == frame[t].key
           e == EngineGet(storage, k, now)
       IN  /\ storage' = EngineTouch(storage, k, now)
           /\ res' = [res EXCEPT ![t] =
                  IF e.present
                  THEN [NoRes EXCEPT !.op = "get", !.key = k,
                           !.found = TRUE, !.value = e.value,
                           !.version = e.version]
                  ELSE [NoRes EXCEPT !.op = "get", !.key = k]]
           /\ known' = [known EXCEPT ![t] =
                  IF e.present
                  THEN [key |-> k, version |-> e.version,
                        set_gen |-> set_gen[k]]
                  ELSE @]
    /\ pc' = [pc EXCEPT ![t] = "idle"]
    /\ frame' = [frame EXCEPT ![t] = NoFrame]
    /\ nops' = [nops EXCEPT ![t] = @ + 1]
    /\ UNCHANGED <<now, shard_mutex, gen, set_gen, cas_batch>>

\* CacheServiceImpl::CompareAndSwap is entered: the new entry is built and
\* the handler goes for the shard's unique lock.
CasCall(t, k, expected, v, ttl) ==
    /\ pc[t] = "idle" /\ Started < MaxOps
    /\ LET joins == /\ storage.data[k].present
                    /\ storage.data[k].expires_at_ms = Nullopt
                    /\ storage.data[k].version = expected
       IN  /\ frame' = [frame EXCEPT ![t] =
                  [op |-> "cas", key |-> k, expected |-> expected,
                   new_entry |-> NewCacheEntry(v, ttl, now),
                   actual_version |-> 0,
                   call_gen |-> gen[k], in_batch |-> joins,
                   informed |-> (known[t].key = k
                                 /\ known[t].version = expected),
                   obs_set_gen |-> known[t].set_gen,
                   stale |-> FALSE]]
           /\ cas_batch' = IF joins
                           THEN [cas_batch EXCEPT ![k][expected].called = @ + 1]
                           ELSE cas_batch
    /\ pc' = [pc EXCEPT ![t] = "cas_check"]
    /\ UNCHANGED <<now, storage, shard_mutex, res, nops, known, gen, set_gen>>

\* History: a finished CAS is counted in the batch it joined
CountCas(b, f, k, success, mismatch, new_version) ==
    IF f.in_batch /\ f.call_gen = gen[k]
    THEN [b EXCEPT ![k][f.expected] =
            [called |-> @.called, done |-> @.done + 1,
             succ |-> @.succ + (IF success THEN 1 ELSE 0),
             mism |-> @.mism + (IF mismatch THEN 1 ELSE 0),
             new_version |-> IF success THEN new_version ELSE @.new_version]]
    ELSE b

\* compare_and_swap takes the unique lock and checks presence, expiry and
\* version; a failed check returns (and unlocks) at once.
CasCheck(t) ==
    /\ pc[t] = "cas_check"
    /\ CanLockUnique(get_shard_index(frame[t].key))
    /\ LET k == frame[t].key
           f == frame[t]
           r == CASCheck(storage, k, f.expected, now)
           stale == f.informed /\ set_gen[k] > f.obs_set_gen
       IN  IF r.success
           THEN /\ shard_mutex' =
                      [shard_mutex EXCEPT ![get_shard_index(k)] = t]
                /\ frame' = [frame EXCEPT ![t].actual_version =
                                              storage.data[k].version,
                                          ![t].stale = stale]
                /\ pc' = [pc EXCEPT ![t] = "cas_write"]
                /\ UNCHANGED <<res, nops, cas_batch>>
           ELSE /\ res' = [res EXCEPT ![t] =
                      [NoRes EXCEPT !.op = "cas", !.key = k,
                          !.actual_version = r.actual_version,
                          !.error = r.error, !.expected = f.expected,
                          !.stale = stale,
                          !.live = EngineGet(storage, k, now).present]]
                /\ cas_batch' = CountCas(cas_batch, f, k, FALSE,
                                         r.error = "Version mismatch", 0)
                /\ nops' = [nops EXCEPT ![t] = @ + 1]
                /\ pc' = [pc EXCEPT ![t] = "idle"]
                /\ frame' = [frame EXCEPT ![t] = NoFrame]
                /\ UNCHANGED shard_mutex
    /\ UNCHANGED <<now, storage, known, gen, set_gen>>

\* compare_and_swap stores the new entry with version actual + 1, unlocks
\* and returns success.
CasWrite(t) ==
    /\ pc[t] = "cas_write"
    /\ LET k == frame[t].key
           f == frame[t]
       IN  /\ storage' = CASWrite(storage, k, f.actual_version, f.new_entry)
           /\ res' = [res EXCEPT ![t] =
                  [NoRes EXCEPT !.op = "cas", !.key = k, !.success = TRUE,
                      !.version = f.actual_version + 1,
                      !.expected = f.expected, !.stale = f.stale,
                      !.live = TRUE]]
           /\ IF f.in_batch /\ f.call_gen = gen[k]
              THEN /\ cas_batch' = CountCas(cas_batch, f, k, TRUE, FALSE,
                                            f.actual_version + 1)
                   /\ gen' = gen
              ELSE \* a write by a call from outside the batch ends the batch
                   /\ cas_batch' = ResetBatch(cas_batch, {k})
                   /\ gen' = BumpGen(gen, {k})
           /\ shard_mutex' = [shard_mutex EXCEPT ![get_shard_index(k)] =
                                 IF @ = t THEN "free" ELSE @]
    /\ nops' = [nops EXCEPT ![t] = @ + 1]
    /\ pc' = [pc EXCEPT ![t] = "idle"]
    /\ frame' = [frame EXCEPT ![t] = NoFrame]
    /\ UNCHANGED <<now, known, set_gen>>

EngineNext ==
    \/ Tick /\ UNCHANGED <<engine_only_vars, quorum_vars, wal_vars, cluster_vars>>
    \/ \E t \in Threads, k \in Keys, ttl \in TTLs :
          Set(t, k, ValueOf(t), ttl) /\ UNCHANGED <<quorum_vars, wal_vars, cluster_vars>>
    \/ \E t \in Threads, k \in Keys :
          Delete(t, k) /\ UNCHANGED <<quorum_vars, wal_vars, cluster_vars>>
    \/ \E t \in Threads, k \in Keys :
          GetCheck(t, k) /\ UNCHANGED <<quorum_vars, wal_vars, cluster_vars>>
    \/ \E t \in Threads :
          GetTouch(t) /\ UNCHANGED <<quorum_vars, wal_vars, cluster_vars>>
    \/ \E t \in Threads, k \in Keys, x \in Versions :
          CasCall(t, k, x, ValueOf(t), Nullopt)
             /\ UNCHANGED <<quorum_vars, wal_vars, cluster_vars>>
    \/ \E t \in Threads :
          CasCheck(t) /\ UNCHANGED <<quorum_vars, wal_vars, cluster_vars>>
    \/ \E t \in Threads :
          CasWrite(t) /\ UNCHANGED <<quorum_vars, wal_vars, cluster_vars>>

-----------------------------------------------------------------------------
(* Claims about the storage engine and the cache service *)

C2_SetBumpsVersion ==
    [][\A k \in Keys :
          set_gen'[k] # set_gen[k] =>
              IF EngineGet(storage, k, now).present
              THEN storage'.data[k].version = storage.data[k].version + 1
              ELSE storage'.data[k].version = 1]_engine_vars

\* C3 (as claimed): a CAS expecting a version its client read before a later
\* successful SET of the key fails with a version mismatch and reports an
\* actual version greater than the expected one.
C3_StaleCASFails ==
    \A t \in Threads :
        (res[t].op = "cas" /\ res[t].stale /\ res[t].live) =>
            /\ ~res[t].success
            /\ res[t].error = "Version mismatch"
            /\ res[t].actual_version > res[t].expected

\* C4: a CAS that finds a live entry whose version differs from the expected
\* one fails with "Version mismatch", reports the entry's current version
\* and leaves the entry as it was.
C4_CASMismatchReportsActual ==
    [][\A t \in Threads :
          (/\ pc[t] = "cas_check"
           /\ pc'[t] # "cas_check"
           /\ EngineGet(storage, frame[t].key, now).present
           /\ storage.data[frame[t].key].version # frame[t].expected)
          => /\ pc'[t] = "idle"
             /\ res'[t].op = "cas"
             /\ ~res'[t].success
             /\ res'[t].error = "Version mismatch"
             /\ res'[t].actual_version = storage.data[frame[t].key].version
             /\ storage'.data[frame[t].key] = storage.data[frame[t].key]
      ]_engine_vars

\* C4 witness: CAS(k, v) succeeded with new version v + 1 and a second
\* CAS(k, v) then failed with actual version v + 1.
C4_Witness ==
    \E t, u \in Threads :
        /\ t # u
        /\ res[t].op = "cas" /\ res[t].success
        /\ res[u].op = "cas" /\ ~res[u].success
        /\ res[u].key = res[t].key
        /\ res[u].expected = res[t].expected
        /\ res[u].error = "Version mismatch"
        /\ res[t].version = res[t].expected + 1
        /\ res[u].actual_version = res[u].expected + 1

-----------------------------------------------------------------------------
(* The quorum coordinator (QuorumCoordinator) over N replica servers, each  *)
(* a CacheServiceImpl reached through its own ShardingClient.               *)

replica_addresses == <<"r1", "r2", "r3">>

\* QuorumConfig defaults
total_replicas == 3
write_quorum == 2
read_quorum == 2

\* Quorum operations performed in one behaviour
MaxQuorumOps == 3

\* The key the quorum operations are about
QKey == "k1"

\* The ttl_seconds arguments a caller passes
QTTLs == {Nullopt, 1}

\* The value the caller's n-th quorum operation writes
QValue(n) == IF n % 2 = 0 THEN "a" ELSE "b"

ReplicaIds == 1 .. Len(replica_addresses)

\* How one replica's RPC goes during a quorum operation:
\*   "ok"    the server runs the handler and the reply arrives in time
\*   "late"  the server runs the handler, the reply misses the deadline
\*   "down"  the RPC fails at once, the server runs nothing
Outcomes == {"ok", "late", "down"}

OutcomeVectors == [ReplicaIds -> Outcomes]

\* std::optional<T>::value_or(0)
value_or_0(opt) == IF opt = Nullopt THEN 0 ELSE opt

Max(a, b) == IF a >= b THEN a ELSE b

\* CacheServiceImpl::Set at one replica: always version 1
ServerSet(eng, k, v, ttl, t) ==
    [eng |-> EngineSet(eng, k, NewCacheEntry(v, ttl, t)),
     success |-> TRUE, version |-> 1]

\* CacheServiceImpl::Get at one replica: found, value, version; the
\* response's timestamp_ms is never set
ServerGet(eng, k, t) ==
    LET e == EngineGet(eng, k, t)
    IN  [eng |-> EngineTouch(eng, k, t), found |-> e.present,
         value |-> e.value, version |-> e.version, timestamp_ms |-> 0]

\* CacheServiceImpl::CompareAndSwap at one replica
ServerCAS(eng, k, expected_version, v, ttl, t) ==
    LET c == EngineCAS(eng, k, expected_version, NewCacheEntry(v, ttl, t), t)
    IN  [eng |-> c.eng, success |-> c.result.success,
         new_version |-> c.result.new_version,
         actual_version |-> c.result.actual_version,
         error |-> c.result.error]

\* OperationResult<T>::Error(msg); an optional value is a sequence of
\* length at most one
OperationError(msg) ==
    [success |-> FALSE, value |-> <<>>, error |-> msg, version |-> 0,
     timestamp_ms |-> 0, version_mismatch |-> FALSE]

\* OperationResult<T>::Success(val, node)
OperationSuccess(val) ==
    [success |-> TRUE, value |-> <<val>>, error |-> "", version |-> 0,
     timestamp_ms |-> 0, version_mismatch |-> FALSE]

\* What ShardingClient reports when the RPC itself failed
RpcFailed == "All replicas failed. Last error: RPC failed: unavailable"

\* ShardingClient::ExecuteSet against one node, one attempt
ExecuteSet(outcome, response) ==
    IF outcome = "down" THEN OperationError(RpcFailed)
    ELSE IF response.success
         THEN [OperationSuccess(TRUE) EXCEPT !.version = response.version]
         ELSE OperationError(RpcFailed)

\* ShardingClient::ExecuteGet against one node: a miss is an Error
ExecuteGet(outcome, response) ==
    IF outcome = "down" THEN OperationError(RpcFailed)
    ELSE IF response.found
         THEN [OperationSuccess(response.value) EXCEPT
                  !.version = response.version,
                  !.timestamp_ms = response.timestamp_ms]
         ELSE OperationError("Key not found")

\* ShardingClient::ExecuteCAS against one node: a refused CAS is an Error
\* carrying the server's reason and the actual version
ExecuteCAS(outcome, response) ==
    IF outcome = "down" THEN OperationError(RpcFailed)
    ELSE IF response.success
         THEN [OperationSuccess(TRUE) EXCEPT !.version = response.new_version]
         ELSE [OperationError("CAS failed: " \o response.error) EXCEPT
                  !.version_mismatch = TRUE,
                  !.version = response.actual_version]

\* error.find("version") != npos || error.find("mismatch") != npos, over the
\* error texts a replica's client can produce
MentionsMismatch(error) == error = "CAS failed: Version mismatch"

\* The wait loop's view of future i: once one future has timed out the
\* deadline has passed and every later future is skipped unread
WaitStatus(out, i) ==
    IF \E j \in 1 .. (i - 1) : out[j] = "late" THEN "skipped"
    ELSE IF out[i] = "late" THEN "timeout"
    ELSE "ready"

\* The wait loop of QuorumWrite from future i on
RECURSIVE WriteLoop(_, _, _, _)
WriteLoop(results, out, i, acc) ==
    IF i > Len(replica_addresses) THEN acc
    ELSE LET a == replica_addresses[i]
             st == WaitStatus(out, i)
         IN  WriteLoop(results, out, i + 1,
               IF st = "skipped"
               THEN [acc EXCEPT !.errors =
                        Append(@, "Timeout waiting for replica " \o a)]
               ELSE IF st = "timeout"
               THEN [acc EXCEPT !.errors =
                        Append(@, "Timeout from replica " \o a)]
               ELSE IF results[i].success
               THEN [acc EXCEPT !.acknowledged = @ + 1,
                                !.max_version = Max(@, results[i].version)]
               ELSE [acc EXCEPT !.errors =
                        Append(@, "Write failed on " \o a \o ": "
                                      \o results[i].error)])

\* The wait loop of QuorumRead from future i on: only hits are collected
RECURSIVE ReadLoop(_, _, _, _)
ReadLoop(results, out, i, acc) ==
    IF i > Len(replica_addresses) THEN acc
    ELSE LET a == replica_addresses[i]
             st == WaitStatus(out, i)
         IN  ReadLoop(results, out, i + 1,
               IF st = "skipped"
               THEN [acc EXCEPT !.errors =
                        Append(@, "Timeout waiting for replica " \o a)]
               ELSE IF st = "timeout"
               THEN [acc EXCEPT !.errors =
                        Append(@, "Timeout from replica " \o a)]
               ELSE IF results[i].success /\ results[i].value # <<>>
               THEN [acc EXCEPT !.responses =
                        Append(@, [success |-> TRUE,
                                   value |-> results[i].value[1],
                                   version |-> results[i].version,
                                   timestamp_ms |-> results[i].timestamp_ms])]
               ELSE IF results[i].success
               THEN [acc EXCEPT !.errors =
                        Append(@, "Key not found on " \o a)]
               ELSE [acc EXCEPT !.errors =
                        Append(@, "Read failed on " \o a \o ": "
                                      \o results[i].error)])

\* The wait loop of QuorumCAS from future i on
RECURSIVE CASLoop(_, _, _, _)
CASLoop(results, out, i, acc) ==
    IF i > Len(replica_addresses) THEN acc
    ELSE LET a == replica_addresses[i]
             st == WaitStatus(out, i)
         IN  CASLoop(results, out, i + 1,
               IF st = "skipped"
               THEN [acc EXCEPT !.errors =
                        Append(@, "Timeout waiting for replica " \o a)]
               ELSE IF st = "timeout"
               THEN [acc EXCEPT !.errors =
                        Append(@, "Timeout from replica " \o a)]
               ELSE IF results[i].success
               THEN [acc EXCEPT !.acknowledged = @ + 1,
                                !.max_version = Max(@, results[i].version)]
               ELSE [acc EXCEPT
                        !.version_mismatch =
                            @ \/ MentionsMismatch(results[i].error),
                        !.errors =
                            Append(@, "CAS failed on " \o a \o ": "
                                          \o results[i].error)])

\* Mutant of ResponseLess: the comparison is turned round
ResponseLess_Reversed(a, b) ==
    IF a.version # b.version THEN a.version > b.version
    ELSE a.timestamp_ms > b.timestamp_ms

\* The comparator QuorumRead hands to std::max_element
ResponseLess(a, b) ==
    IF a.version # b.version THEN a.version < b.version
    ELSE a.timestamp_ms < b.timestamp_ms

\* std::max_element over responses[i ..], largest being the index of the
\* largest element so far: the first of the greatest elements wins
RECURSIVE max_element(_, _, _)
max_element(responses, i, largest) ==
    IF i > Len(responses) THEN largest
    ELSE max_element(responses, i + 1,
             IF ResponseLess(responses[largest], responses[i])
             THEN i ELSE largest)

\* QuorumRead's list for read-repair: response index i names
\* replica_addresses[i]
RECURSIVE StaleReplicas(_, _, _)
StaleReplicas(responses, version, i) ==
    IF i > Len(responses) THEN <<>>
    ELSE (IF responses[i].version < version
          THEN <<replica_addresses[i]>> ELSE <<>>)
         \o StaleReplicas(responses, version, i + 1)

\* WriteResult and ReadResult as constructed
NewWriteResult ==
    [success |-> FALSE, version |-> 0, replicas_acknowledged |-> 0,
     errors |-> <<>>]

NewReadResult ==
    [success |-> FALSE, value |-> <<>>, version |-> 0, timestamp_ms |-> 0,
     version_vector |-> <<>>, replicas_responded |-> 0, errors |-> <<>>]

\* History: replies that arrived in time
Answered(out) ==
    Cardinality({i \in ReplicaIds :
                    WaitStatus(out, i) = "ready" /\ out[i] = "ok"})

NoObs ==
    [op |-> "none", answered |-> 0, responses |-> <<>>, acknowledged |-> 0,
     mismatch_reported |-> FALSE, lower |-> {}, named |-> {},
     new_key |-> FALSE, after_new_write |-> FALSE, all_answered |-> FALSE,
     missing |-> 0]

\* History: the replicas that hold no live entry for the key
Missing(t) ==
    {i \in ReplicaIds : ~EngineGet(replicas[i], QKey, t).present}

\* A coordinator that has performed no operation, and empty replicas
QuorumIdle ==
    /\ replicas = [i \in ReplicaIds |-> EmptyEngine]
    /\ qres = NewWriteResult
    /\ qobs = NoObs
    /\ qlater = {}
    /\ repairs = {}
    /\ qops = 0

\* QuorumConfig as default-constructed
DefaultQuorumConfig ==
    [write_quorum |-> write_quorum, read_quorum |-> read_quorum,
     total_replicas |-> total_replicas]

QuorumInit == QuorumIdle /\ config_ = DefaultQuorumConfig

\* The engines after an operation whose handler ran wherever the RPC got
\* through
Applied(out, srv) ==
    [i \in ReplicaIds |-> IF out[i] = "down" THEN replicas[i] ELSE srv[i].eng]

\* QuorumCoordinator::QuorumWrite(key, value, replica_addresses, ttl_seconds)
\* (the locals are bound with \E over one-element sets)
QuorumWrite(value, ttl_seconds, out) ==
    /\ qops < MaxQuorumOps
    /\ \E srv \in {[i \in ReplicaIds |->
                     ServerSet(replicas[i], QKey, value,
                               value_or_0(ttl_seconds), now)]} :
       \E acc \in {WriteLoop([i \in ReplicaIds |-> ExecuteSet(out[i], srv[i])],
                            out, 1,
                            [acknowledged |-> 0, max_version |-> 0,
                             errors |-> <<>>])} :
       \E result \in {[NewWriteResult EXCEPT
                         !.replicas_acknowledged = acc.acknowledged,
                         !.version = acc.max_version,
                         !.success = (acc.acknowledged >= config_.write_quorum),
                         !.errors = acc.errors]} :
           /\ replicas' = Applied(out, srv)
           /\ qres' = result
           /\ qobs' = [NoObs EXCEPT !.op = "write",
                          !.answered = Answered(out),
                          !.acknowledged = acc.acknowledged,
                          !.new_key = (\A i \in ReplicaIds :
                                          ~replicas[i].data[QKey].present)]
           /\ qlater' = IF result.success THEN {value}
                        ELSE IF qlater # {} THEN qlater \cup {value}
                        ELSE {}
    /\ qops' = qops + 1
    /\ UNCHANGED <<now, repairs, config_>>

\* The ReadResult QuorumRead builds from the collected responses
ReadResultOf(acc) ==
    IF Len(acc.responses) < config_.read_quorum
    THEN [NewReadResult EXCEPT !.replicas_responded = Len(acc.responses),
                               !.errors = acc.errors]
    ELSE LET latest == acc.responses[max_element(acc.responses, 2, 1)]
         IN  [NewReadResult EXCEPT !.replicas_responded = Len(acc.responses),
                                   !.errors = acc.errors,
                                   !.success = TRUE,
                                   !.value = <<latest.value>>,
                                   !.version = latest.version,
                                   !.timestamp_ms = latest.timestamp_ms]

\* QuorumCoordinator::QuorumRead(key, replica_addresses); the read-repair
\* thread it detaches runs later (ReadRepair)
QuorumRead(out) ==
    /\ qops < MaxQuorumOps
    /\ \E srv \in {[i \in ReplicaIds |-> ServerGet(replicas[i], QKey, now)]} :
       \E acc \in {ReadLoop([i \in ReplicaIds |-> ExecuteGet(out[i], srv[i])],
                           out, 1, [responses |-> <<>>, errors |-> <<>>])} :
       \E result \in {ReadResultOf(acc)} :
       \E stale_replicas \in
             {IF result.success
              THEN StaleReplicas(acc.responses, result.version, 1)
              ELSE <<>>} :
           /\ replicas' = Applied(out, srv)
           /\ qres' = result
           /\ qobs' = [NoObs EXCEPT !.op = "read",
                          !.answered = Answered(out),
                          !.responses = acc.responses,
                          !.lower =
                             {replica_addresses[i] : i \in
                                {j \in ReplicaIds :
                                    /\ WaitStatus(out, j) = "ready"
                                    /\ srv[j].found /\ out[j] = "ok"
                                    /\ srv[j].version < result.version}},
                          !.named =
                             {stale_replicas[j] :
                                 j \in 1 .. Len(stale_replicas)},
                          !.after_new_write =
                             (qobs.op = "write" /\ qres.success
                                 /\ qobs.new_key),
                          !.all_answered = (Answered(out) = total_replicas),
                          !.missing = Cardinality(Missing(now))]
           /\ repairs' = IF stale_replicas # <<>>
                         THEN repairs \cup
                                {[value |-> result.value[1],
                                  version |-> result.version,
                                  stale_replicas |-> stale_replicas]}
                         ELSE repairs
    /\ qops' = qops + 1
    /\ UNCHANGED <<now, qlater, config_>>

\* QuorumCoordinator::ReadRepair, on its detached thread: a plain Set of
\* the latest value (no TTL) at each replica named stale
ReadRepair(rp, out) ==
    /\ rp \in repairs
    /\ \E named \in {{i \in ReplicaIds :
                        \E j \in 1 .. Len(rp.stale_replicas) :
                            rp.stale_replicas[j] = replica_addresses[i]}} :
          replicas' =
             [i \in ReplicaIds |->
                 IF i \in named /\ out[i] # "down"
                 THEN ServerSet(replicas[i], QKey, rp.value, Nullopt, now).eng
                 ELSE replicas[i]]
    /\ repairs' = repairs \ {rp}
    /\ UNCHANGED <<now, qres, qobs, qlater, qops, config_>>

\* QuorumCoordinator::QuorumCAS(key, expected_version, new_value,
\* replica_addresses, ttl_seconds)
QuorumCAS(expected_version, new_value, ttl_seconds, out) ==
    /\ qops < MaxQuorumOps
    /\ \E srv \in {[i \in ReplicaIds |->
                     ServerCAS(replicas[i], QKey, expected_version, new_value,
                               value_or_0(ttl_seconds), now)]} :
       \E acc \in {CASLoop([i \in ReplicaIds |-> ExecuteCAS(out[i], srv[i])],
                          out, 1,
                          [acknowledged |-> 0, max_version |-> 0,
                           version_mismatch |-> FALSE, errors |-> <<>>])} :
       \E replied \in {{i \in ReplicaIds :
                          WaitStatus(out, i) = "ready" /\ out[i] = "ok"}} :
           /\ replicas' = Applied(out, srv)
           /\ qres' = [NewWriteResult EXCEPT
                         !.replicas_acknowledged = acc.acknowledged,
                         !.version = acc.max_version,
                         !.success = (acc.acknowledged >= config_.write_quorum
                                      /\ ~acc.version_mismatch),
                         !.errors = acc.errors]
           /\ qobs' = [NoObs EXCEPT !.op = "cas",
                          !.answered = Cardinality(replied),
                          !.acknowledged =
                              Cardinality({i \in replied : srv[i].success}),
                          !.mismatch_reported =
                              \E i \in replied :
                                  /\ ~srv[i].success
                                  /\ srv[i].error = "Version mismatch"]
           /\ qlater' = IF qlater # {} THEN qlater \cup {new_value} ELSE {}
    /\ qops' = qops + 1
    /\ UNCHANGED <<now, repairs, config_>>

QuorumNext ==
    \/ Tick /\ UNCHANGED <<engine_only_vars, quorum_vars, wal_vars, cluster_vars>>
    \/ \E ttl \in QTTLs, out \in OutcomeVectors :
          QuorumWrite(QValue(qops), ttl, out)
             /\ UNCHANGED <<engine_only_vars, wal_vars, cluster_vars>>
    \/ \E out \in OutcomeVectors :
          QuorumRead(out) /\ UNCHANGED <<engine_only_vars, wal_vars, cluster_vars>>
    \/ \E rp \in repairs, out \in OutcomeVectors :
          ReadRepair(rp, out) /\ UNCHANGED <<engine_only_vars, wal_vars, cluster_vars>>
    \/ \E x \in Versions, out \in OutcomeVectors :
          QuorumCAS(x, QValue(qops), Nullopt, out)
             /\ UNCHANGED <<engine_only_vars, wal_vars, cluster_vars>>

-----------------------------------------------------------------------------
(* Claims about the quorum coordinator *)

\* C5: with W + R > N, a QuorumRead that starts after a successful
\* QuorumWrite and succeeds returns the value of that write or of a write
\* attempted after it, whichever replicas missed the write.
C5_ReadSeesQuorumWrite ==
    (/\ write_quorum + read_quorum > total_replicas
     /\ qobs.op = "read" /\ qres.success /\ qlater # {})
    => qres.value[1] \in qlater

\* C6: a QuorumRead succeeds only if at least R replicas replied before the
\* deadline, and what it returns is one of the collected responses, with no
\* collected response above it in (version, timestamp) order.
C6_QuorumReadHighest ==
    (qobs.op = "read" /\ qres.success) =>
        /\ qobs.answered >= read_quorum
        /\ \A i \in 1 .. Len(qobs.responses) :
              \/ qobs.responses[i].version < qres.version
              \/ /\ qobs.responses[i].version = qres.version
                 /\ qobs.responses[i].timestamp_ms <= qres.timestamp_ms
        /\ \E i \in 1 .. Len(qobs.responses) :
              /\ qobs.responses[i].value = qres.value[1]
              /\ qobs.responses[i].version = qres.version
              /\ qobs.responses[i].timestamp_ms = qres.timestamp_ms

\* A successful read whose collected responses carry different versions
C6_Witness ==
    /\ qobs.op = "read" /\ qres.success
    /\ \E i, j \in 1 .. Len(qobs.responses) :
          qobs.responses[i].version < qobs.responses[j].version

\* C7: a QuorumCAS succeeds exactly when at least W replicas acknowledged
\* the CAS and none reported a version mismatch, and a reported mismatch
\* makes the result a failure that carries version_mismatch = true.
C7_QuorumCASFlagsMismatch ==
    qobs.op = "cas" =>
        /\ qres.success <=> (/\ qobs.acknowledged >= write_quorum
                             /\ ~qobs.mismatch_reported)
        /\ qobs.mismatch_reported =>
              /\ ~qres.success
              /\ "version_mismatch" \in DOMAIN qres
              /\ qres.version_mismatch

-----------------------------------------------------------------------------
(* The write-ahead log (WAL), the snapshot manager and the recovery        *)
(* manager of one node. Sizes are in abstract units; a log or snapshot id  *)
(* is the millisecond it was generated in, and log files are created in    *)
(* distinct milliseconds.                                                  *)

\* Mutations attempted, node crashes and log files in one behaviour
MaxWalOps == 3
MaxCrashes == 1
MaxLogs == 3
MaxSnapshots == 2

\* Bytes of a serialized WAL header and of a serialized WAL record
HeaderSize == 1
EntrySize == 1

\* WAL::Config, scaled down
max_file_size_bytes == 2
max_log_files == 2

LogIds == 1 .. MaxLogs

\* The keys the node's logged mutations touch
WalKeys == {"k1"}

\* The value the node's n-th mutation writes
WValue(n) == IF n % 2 = 0 THEN "a" ELSE "b"

NoFile == [exists |-> FALSE, header |-> FALSE, records |-> <<>>]

\* A WAL object as constructed: not open, last_sequence_{0}; buffer and
\* header_pending are what the ofstream holds and has not yet given to
\* the operating system
NewWAL ==
    [is_open |-> FALSE, stream_open |-> FALSE, current_log_id |-> 0,
     current_file_size |-> 0, last_sequence |-> 0, buffer |-> <<>>,
     header_pending |-> FALSE, mutex_stuck |-> FALSE]

\* WAL::AppendSet's record for (key, entry)
SetRecord(k, entry) ==
    [type |-> "SET", key |-> k, value |-> entry.value,
     version |-> entry.version, ttl_seconds |-> entry.ttl_seconds,
     expected_version |-> Nullopt, timestamp_ms |-> entry.created_at_ms,
     sequence_number |-> 0]

\* WAL::AppendDelete's record for key
DeleteRecord(k, t) ==
    [type |-> "DELETE", key |-> k, value |-> "", version |-> 0,
     ttl_seconds |-> Nullopt, expected_version |-> Nullopt,
     timestamp_ms |-> t, sequence_number |-> 0]

\* WAL::AppendCAS's record for (key, entry, expected_version)
CASRecord(k, entry, expected_version) ==
    [type |-> "CAS", key |-> k, value |-> entry.value,
     version |-> entry.version, ttl_seconds |-> entry.ttl_seconds,
     expected_version |-> expected_version,
     timestamp_ms |-> entry.created_at_ms, sequence_number |-> 0]

\* log_file_->flush(): what the stream holds goes to the file it has open,
\* if that file is still in the directory
Flush(w, disk) ==
    [w |-> [w EXCEPT !.buffer = <<>>, !.header_pending = FALSE],
     disk |-> IF w.stream_open /\ w.current_log_id \in LogIds
                 /\ disk[w.current_log_id].exists
              THEN [disk EXCEPT ![w.current_log_id] =
                      [exists |-> TRUE,
                       header |-> @.header \/ w.header_pending,
                       records |-> @.records \o w.buffer]]
              ELSE disk]

\* WAL::ListWALFiles, sorted
ListWALFiles(disk) == {id \in LogIds : disk[id].exists}

\* WAL::Open with the log id it generated; open_ok: the file could be opened
Open(w, disk, id, open_ok) ==
    IF w.is_open THEN [w |-> w, disk |-> disk]
    ELSE IF ~open_ok
    THEN [w |-> [w EXCEPT !.current_log_id = id, !.stream_open = FALSE,
                          !.buffer = <<>>, !.header_pending = FALSE],
          disk |-> disk]
    ELSE [w |-> [w EXCEPT !.current_log_id = id, !.stream_open = TRUE,
                          !.buffer = <<>>, !.header_pending = TRUE,
                          !.current_file_size = HeaderSize,
                          !.is_open = TRUE],
          disk |-> [disk EXCEPT ![id] = [NoFile EXCEPT !.exists = TRUE]]]

\* WAL::Close
Close(w, disk) ==
    IF ~w.is_open THEN [w |-> w, disk |-> disk]
    ELSE LET f == Flush(w, disk)
         IN  [w |-> [f.w EXCEPT !.stream_open = FALSE, !.is_open = FALSE],
              disk |-> f.disk]

\* WAL::ShouldRotate
ShouldRotate(w) == w.current_file_size >= max_file_size_bytes

\* The files RotateLog's retention removes: the oldest beyond max_log_files
Retained(disk) ==
    LET files == ListWALFiles(disk)
        to_delete == Cardinality(files) - max_log_files
    IN  IF to_delete <= 0 THEN disk
        ELSE [id \in LogIds |->
                IF id \in files
                   /\ Cardinality({x \in files : x < id}) < to_delete
                THEN NoFile ELSE disk[id]]

\* WAL::RotateLog with the log id it generated
RotateLog(w, disk, id, open_ok) ==
    LET f == Flush(w, disk)
    IN  IF ~open_ok
        THEN [ok |-> FALSE,
              w |-> [f.w EXCEPT !.current_log_id = id,
                                !.stream_open = FALSE, !.is_open = FALSE],
              disk |-> f.disk]
        ELSE [ok |-> TRUE,
              w |-> [f.w EXCEPT !.current_log_id = id,
                                !.stream_open = TRUE,
                                !.header_pending = TRUE,
                                !.current_file_size = HeaderSize],
              disk |-> Retained([f.disk EXCEPT ![id] =
                                    [NoFile EXCEPT !.exists = TRUE]])]

\* WAL::WriteEntryToFile: the record goes into the stream
WriteEntryToFile(w, entry) ==
    IF ~w.stream_open THEN [ok |-> FALSE, w |-> w]
    ELSE [ok |-> TRUE,
          w |-> [w EXCEPT !.buffer = Append(@, entry),
                          !.current_file_size = @ + EntrySize]]

\* WAL::AppendEntry. id is the log id a rotation would generate, open_ok
\* whether the rotation's file could be opened. With sync_on_write the
\* method ends in Sync(), which locks the std::mutex AppendEntry already
\* holds; relock says what that does: "deadlock" (the call never returns
\* and the mutex stays locked) or "returns" (Sync runs and returns).
\* result is "true", "false" or "hang".
AppendEntry(w, disk, entry, id, open_ok, relock, sync) ==
    IF ~w.is_open
    THEN [result |-> "false", w |-> w, disk |-> disk, rotated |-> FALSE,
          written |-> FALSE]
    ELSE LET numbered_entry ==
                 [entry EXCEPT !.sequence_number = w.last_sequence + 1]
             w1 == [w EXCEPT !.last_sequence = @ + 1]
             rotates == ShouldRotate(w1)
             r == IF rotates THEN RotateLog(w1, disk, id, open_ok)
                  ELSE [ok |-> TRUE, w |-> w1, disk |-> disk]
         IN  IF ~r.ok
             THEN [result |-> "false", w |-> r.w, disk |-> r.disk,
                   rotated |-> rotates, written |-> FALSE]
             ELSE LET wr == WriteEntryToFile(r.w, numbered_entry)
                  IN  IF ~wr.ok
                      THEN [result |-> "false", w |-> wr.w, disk |-> r.disk,
                            rotated |-> rotates, written |-> FALSE]
                      ELSE IF ~sync
                      THEN [result |-> "true", w |-> wr.w, disk |-> r.disk,
                            rotated |-> rotates, written |-> TRUE]
                      ELSE IF relock = "deadlock"
                      THEN [result |-> "hang",
                            w |-> [wr.w EXCEPT !.mutex_stuck = TRUE],
                            disk |-> r.disk, rotated |-> rotates,
                            written |-> TRUE]
                      ELSE LET f == Flush(wr.w, r.disk)
                           IN  [result |-> "true", w |-> f.w, disk |-> f.disk,
                                rotated |-> rotates, written |-> TRUE]

\* WAL::ReadWALFile on one file. A file whose header never reached the disk
\* is empty: the size read fails and header_size is used uninitialized;
\* headerless says what comes of it: "empty" (no records), "fail" (the
\* header does not parse) or "throws" (the allocation throws).
ReadWALFile(disk, id, headerless) ==
    IF ~disk[id].exists THEN [status |-> "fail", entries |-> <<>>]
    ELSE IF ~disk[id].header
    THEN [status |-> headerless, entries |-> <<>>]
    ELSE [status |-> "empty", entries |-> disk[id].records]

RECURSIVE MaxSeq(_)
MaxSeq(entries) ==
    IF entries = <<>> THEN 0
    ELSE Max(Head(entries).sequence_number, MaxSeq(Tail(entries)))

\* WAL::TruncateBeforeSequence: every file whose records all lie before
\* sequence is removed, the file being written included
TruncateBeforeSequence(disk, sequence, headerless) ==
    [id \in LogIds |->
        LET rd == ReadWALFile(disk, id, headerless)
        IN  IF disk[id].exists /\ rd.status = "empty"
               /\ MaxSeq(rd.entries) < sequence
            THEN NoFile ELSE disk[id]]

\* Whether a read of some file on disk throws
ReadThrows(disk, headerless) ==
    headerless = "throws" /\ \E id \in LogIds : disk[id].exists /\ ~disk[id].header

\* SnapshotManager::CreateSnapshot's file: for_each visits the live entries;
\* the file keeps ttl and expires_at with 0 for "none"
SnapshotEntries(eng, t) ==
    [k \in Keys |->
        IF eng.data[k].present /\ ~is_expired(eng.data[k], t)
        THEN [eng.data[k] EXCEPT
                 !.ttl_seconds = value_or_0(@),
                 !.expires_at_ms = value_or_0(@)]
        ELSE NoEntry]

\* SnapshotManager::ReadSnapshotFromFile: ttl and expires_at are optional
\* again, present only if positive
SnapshotEntry(e) ==
    [e EXCEPT !.ttl_seconds = IF @ > 0 THEN @ ELSE Nullopt,
              !.expires_at_ms = IF @ > 0 THEN @ ELSE Nullopt]

\* Keys in the order a restore applies them
KeyOrder == <<"k1", "k2">>

\* SnapshotManager::RestoreFromSnapshot: set() of every entry read
RECURSIVE RestoreEntries(_, _, _)
RestoreEntries(eng, entries, i) ==
    IF i > Len(KeyOrder) THEN eng
    ELSE RestoreEntries(
            IF entries[KeyOrder[i]].present
            THEN EngineSet(eng, KeyOrder[i], SnapshotEntry(entries[KeyOrder[i]]))
            ELSE eng,
            entries, i + 1)

\* The newest of the snapshots listed (metadata: id = timestamp)
RECURSIVE Latest(_)
Latest(list) ==
    IF Len(list) = 1 THEN list[1]
    ELSE Max(Head(list), Latest(Tail(list)))

\* RecoveryManager::RestoreSnapshot: only the newest listed snapshot is
\* tried
RestoreSnapshot(eng, list, sdisk) ==
    IF list = <<>> THEN [restored |-> FALSE, eng |-> eng]
    ELSE IF ~sdisk[Latest(list)].exists
    THEN [restored |-> FALSE, eng |-> eng]
    ELSE [restored |-> TRUE,
          eng |-> RestoreEntries(eng, sdisk[Latest(list)].entries, 1)]

\* RecoveryResult::snapshot_id after RestoreSnapshot: the snapshot restored
\* from, if any
RestoredFrom(list, sdisk) ==
    IF RestoreSnapshot(EmptyEngine, list, sdisk).restored
    THEN Latest(list) ELSE Nullopt

\* Mutant of ApplyWALEntry: a replayed record bumps the version the engine
\* holds for the key instead of storing the record's version
ApplyWALEntry_BumpsVersion(eng, entry) ==
    IF entry.type = "DELETE" THEN EngineDel(eng, entry.key)
    ELSE EngineSet(eng, entry.key,
            [present |-> TRUE, value |-> entry.value,
             ttl_seconds |-> entry.ttl_seconds,
             expires_at_ms |-> Nullopt,
             version |-> eng.data[entry.key].version + 1,
             created_at_ms |-> entry.timestamp_ms])

\* RecoveryManager::ApplyWALEntry
ApplyWALEntry(eng, entry) ==
    IF entry.type = "DELETE" THEN EngineDel(eng, entry.key)
    ELSE EngineSet(eng, entry.key,
            [present |-> TRUE, value |-> entry.value,
             ttl_seconds |-> entry.ttl_seconds,
             expires_at_ms |->
                 IF entry.ttl_seconds # Nullopt
                 THEN entry.timestamp_ms + entry.ttl_seconds * 1000
                 ELSE Nullopt,
             version |-> entry.version,
             created_at_ms |-> entry.timestamp_ms])

\* std::sort by sequence_number; records with equal sequence numbers come
\* out in the order read or in the opposite order (the sort is not stable)
RECURSIVE SortBySequence(_, _)
SortBySequence(entries, ties_reversed) ==
    IF entries = <<>> THEN <<>>
    ELSE LET least == CHOOSE i \in 1 .. Len(entries) :
                        \A j \in 1 .. Len(entries) :
                           \/ entries[i].sequence_number
                                 < entries[j].sequence_number
                           \/ /\ entries[i].sequence_number
                                    = entries[j].sequence_number
                              /\ IF ties_reversed THEN i >= j ELSE i <= j
         IN  <<entries[least]>> \o
             SortBySequence(
                 SubSeq(entries, 1, least - 1) \o
                   SubSeq(entries, least + 1, Len(entries)),
                 ties_reversed)

\* ReplayWAL's first loop: the records of the files from id on, in file
\* name order, that lie after snapshot_sequence
RECURSIVE CollectEntries(_, _, _, _)
CollectEntries(disk, id, headerless, snapshot_sequence) ==
    IF id > MaxLogs THEN <<>>
    ELSE SelectSeq(ReadWALFile(disk, id, headerless).entries,
                   LAMBDA e : e.sequence_number > snapshot_sequence)
         \o CollectEntries(disk, id + 1, headerless, snapshot_sequence)

RECURSIVE ApplyAll(_, _)
ApplyAll(eng, entries) ==
    IF entries = <<>> THEN eng
    ELSE ApplyAll(ApplyWALEntry(eng, Head(entries)), Tail(entries))

\* RecoveryManager::ReplayWAL
ReplayWAL(eng, disk, snapshot_sequence, headerless, ties_reversed) ==
    ApplyAll(eng,
             SortBySequence(
                 CollectEntries(disk, 1, headerless, snapshot_sequence),
                 ties_reversed))

\* RecoveryManager::Recover: the snapshot, then every WAL record (the
\* snapshot's sequence is taken to be 0)
Recover(eng, list, sdisk, disk, headerless, ties_reversed) ==
    ReplayWAL(RestoreSnapshot(eng, list, sdisk).eng, disk, 0, headerless,
              ties_reversed)

\* What GET shows of a key: presence, value, version
View(eng, k, t) ==
    LET e == EngineGet(eng, k, t)
    IN  [found |-> e.present, value |-> e.value, version |-> e.version]

SnapIds == 0 .. MaxLogs

NoAppend ==
    [called |-> FALSE, result |-> "none", seq_before |-> 0, seq_after |-> 0,
     written |-> FALSE]

WALInit ==
    /\ wal_disk = [id \in LogIds |-> NoFile]
    /\ snap_disk = [id \in SnapIds |->
                      [exists |-> FALSE, entries |-> [k \in Keys |-> NoEntry]]]
    /\ wal = NewWAL
    /\ snapshots_ = <<>>
    /\ phase = "running"
    /\ sync_on_write \in BOOLEAN
    /\ wlog = [nmut |-> 0, crashes |-> 0, assigned |-> <<>>,
               last_append |-> NoAppend,
               pre_crash |-> [k \in Keys |-> View(EmptyEngine, k, 0)],
               durable |-> TRUE, just_recovered |-> FALSE, snap_seq |-> 0,
               runs |-> 0, ties |-> FALSE, restored |-> Nullopt,
               covered |-> Nullopt]

\* The node's WAL is opened; the log id is the new millisecond
WalOpen(open_ok) ==
    /\ phase = "running" /\ ~wal.is_open /\ ~wal.mutex_stuck
    /\ now + 1 \in LogIds
    /\ \E o \in {Open(wal, wal_disk, now + 1, open_ok)} :
          wal' = o.w /\ wal_disk' = o.disk
    /\ now' = now + 1
    /\ wlog' = [wlog EXCEPT !.runs = 0, !.ties = FALSE,
                             !.restored = Nullopt]
    /\ UNCHANGED <<storage, snap_disk, snapshots_, phase, sync_on_write>>

\* WAL::Close
WalClose ==
    /\ phase = "running" /\ wal.is_open /\ ~wal.mutex_stuck
    /\ \E o \in {Close(wal, wal_disk)} : wal' = o.w /\ wal_disk' = o.disk
    /\ UNCHANGED <<now, storage, snap_disk, snapshots_, phase, sync_on_write,
                   wlog>>

\* WAL::Sync called from outside AppendEntry
WalSync ==
    /\ phase = "running" /\ ~wal.mutex_stuck /\ wal.stream_open
    /\ wal.buffer # <<>> \/ wal.header_pending
    /\ \E o \in {Flush(wal, wal_disk)} : wal' = o.w /\ wal_disk' = o.disk
    /\ UNCHANGED <<now, storage, snap_disk, snapshots_, phase, sync_on_write,
                   wlog>>

\* A mutation of the node: the record is appended to the WAL and, if the
\* append returned true, the engine is changed
Mutate(record, applied, open_ok, relock) ==
    /\ phase = "running" /\ ~wal.mutex_stuck
    /\ wlog.nmut < MaxWalOps
    /\ (wal.is_open /\ ShouldRotate(wal)) => now + 1 \in LogIds
    /\ \E a \in {AppendEntry(wal, wal_disk, record, now + 1, open_ok, relock,
                             sync_on_write)} :
          /\ wal' = a.w
          /\ wal_disk' = a.disk
          /\ now' = IF a.rotated THEN now + 1 ELSE now
          /\ storage' = IF a.result = "true" THEN applied ELSE storage
          /\ wlog' = [wlog EXCEPT
                 !.nmut = @ + 1,
                 !.assigned = IF a.written
                              THEN Append(@, a.w.last_sequence) ELSE @,
                 !.last_append =
                     [called |-> TRUE, result |-> a.result,
                      seq_before |-> wal.last_sequence,
                      seq_after |-> a.w.last_sequence,
                      written |-> a.written],
                 !.just_recovered = @ /\ a.result # "true",
                 !.runs = 0, !.ties = FALSE,
                             !.restored = Nullopt]
    /\ UNCHANGED <<snap_disk, snapshots_, phase, sync_on_write>>

LoggedSet(k, open_ok, relock) ==
    \E entry \in {NewCacheEntry(WValue(wlog.nmut), Nullopt, now)} :
        Mutate(SetRecord(k, entry), EngineSet(storage, k, entry),
               open_ok, relock)

LoggedDelete(k, open_ok, relock) ==
    Mutate(DeleteRecord(k, now), EngineDel(storage, k), open_ok, relock)

LoggedCAS(k, expected_version, open_ok, relock) ==
    /\ CASCheck(storage, k, expected_version, now).success
    /\ \E entry \in {[NewCacheEntry(WValue(wlog.nmut), Nullopt, now) EXCEPT
                        !.version = storage.data[k].version + 1]} :
          Mutate(CASRecord(k, entry, expected_version),
                 CASWrite(storage, k, storage.data[k].version, entry),
                 open_ok, relock)

\* SnapshotManager::CreateSnapshot: the file is written under the id of
\* this millisecond and its metadata pushed onto snapshots_
CreateSnapshot ==
    /\ phase = "running"
    /\ Len(snapshots_) < MaxSnapshots
    /\ snap_disk' = [snap_disk EXCEPT ![now] =
                        [exists |-> TRUE,
                         entries |-> SnapshotEntries(storage, now)]]
    /\ snapshots_' = Append(snapshots_, now)
    /\ wlog' = [wlog EXCEPT !.snap_seq = wal.last_sequence, !.runs = 0, !.ties = FALSE,
                             !.restored = Nullopt]
    /\ UNCHANGED <<now, storage, wal_disk, wal, phase, sync_on_write>>

\* The node process ends: engine, WAL object and snapshot metadata are gone,
\* the files stay
Die ==
    /\ storage' = EmptyEngine
    /\ wal' = NewWAL
    /\ snapshots_' = <<>>
    /\ phase' = "down"
    /\ wlog' = [wlog EXCEPT
           !.crashes = @ + 1,
           !.pre_crash = [k \in Keys |-> View(storage, k, now)],
           !.durable = (wal.buffer = <<>>),
           !.just_recovered = FALSE,
           !.snap_seq = 0,
           !.covered = Nullopt,
           !.runs = 0, !.ties = FALSE,
                             !.restored = Nullopt]
    /\ UNCHANGED <<now, snap_disk, sync_on_write>>

\* After a snapshot the records it covers are truncated:
\* TruncateBeforeSequence(sequence) with sequence - 1 no later than the
\* last record the snapshot covers. A read that throws ends the process.
Truncate(sequence, headerless) ==
    /\ phase = "running" /\ ~wal.mutex_stuck
    /\ snapshots_ # <<>>
    /\ sequence \in 1 .. (wlog.snap_seq + 1)
    /\ IF ReadThrows(wal_disk, headerless)
       THEN wlog.crashes < MaxCrashes /\ Die /\ UNCHANGED wal_disk
       ELSE /\ wal_disk' = TruncateBeforeSequence(wal_disk, sequence,
                                                  headerless)
            /\ wlog' = [wlog EXCEPT !.runs = 0, !.ties = FALSE,
                                     !.restored = Nullopt,
                                     !.covered = Max(@, sequence - 1)]
            /\ UNCHANGED <<now, storage, snap_disk, wal, snapshots_, phase,
                           sync_on_write>>

\* The node crashes
Crash ==
    /\ phase = "running"
    /\ wlog.crashes < MaxCrashes
    /\ Die
    /\ UNCHANGED wal_disk

\* A fresh process starts on the node's directories and runs
\* RecoveryManager::Recover before anything else; a read that throws ends
\* that process too and leaves the node down
RecoverNode(headerless, ties_reversed) ==
    /\ phase = "down"
    /\ ~ReadThrows(wal_disk, headerless)
    /\ storage' = Recover(EmptyEngine, <<>>, snap_disk, wal_disk, headerless,
                          ties_reversed)
    /\ phase' = "running"
    /\ wlog' = [wlog EXCEPT !.just_recovered = TRUE, !.runs = 1,
                             !.ties = ties_reversed,
                             !.restored = RestoredFrom(<<>>, snap_disk)]
    /\ UNCHANGED <<now, wal_disk, snap_disk, wal, snapshots_, sync_on_write>>

\* Recover is called in a running process, on the managers that process
\* has
RecoverInPlace(headerless, ties_reversed) ==
    /\ phase = "running"
    /\ ~wal.mutex_stuck
    /\ wlog.runs = 0
    /\ ~ReadThrows(wal_disk, headerless)
    /\ storage' = Recover(storage, snapshots_, snap_disk, wal_disk, headerless,
                          ties_reversed)
    /\ wlog' = [wlog EXCEPT !.runs = 1, !.ties = ties_reversed,
                             !.just_recovered = FALSE,
                             !.restored = RestoredFrom(snapshots_, snap_disk)]
    /\ UNCHANGED <<now, wal_disk, snap_disk, wal, snapshots_, phase,
                   sync_on_write>>

\* A snapshot file becomes unreadable (removed, or its header damaged)
LoseSnapshot(id) ==
    /\ snap_disk[id].exists
    /\ snap_disk' = [snap_disk EXCEPT ![id] =
                        [exists |-> FALSE, entries |-> [k \in Keys |-> NoEntry]]]
    /\ wlog' = [wlog EXCEPT !.runs = 0, !.ties = FALSE,
                             !.restored = Nullopt]
    /\ UNCHANGED <<now, storage, wal_disk, wal, snapshots_, phase,
                   sync_on_write>>

\* Recover is called once more on the directories it has just recovered
\* from. std::sort is a function of its input, so equal sequence numbers
\* come out as they did in the first run; a read of a headerless file may
\* differ from run to run.
RecoverAgain(headerless) ==
    /\ phase = "running"
    /\ wlog.runs = 1
    /\ ~ReadThrows(wal_disk, headerless)
    /\ storage' = Recover(storage, snapshots_, snap_disk, wal_disk, headerless,
                          wlog.ties)
    /\ wlog' = [wlog EXCEPT !.runs = 2]
    /\ UNCHANGED <<now, wal_disk, snap_disk, wal, snapshots_, phase,
                   sync_on_write>>

\* What a file without header may read as
HeaderlessReads == {"empty", "fail", "throws"}

\* What relocking the held mutex may do
Relocks == {"deadlock", "returns"}

WALNext ==
    \/ \E open_ok \in BOOLEAN :
          WalOpen(open_ok) /\ UNCHANGED <<service_vars, quorum_vars, cluster_vars>>
    \/ WalClose /\ UNCHANGED <<service_vars, quorum_vars, cluster_vars>>
    \/ WalSync /\ UNCHANGED <<service_vars, quorum_vars, cluster_vars>>
    \/ \E k \in WalKeys, open_ok \in BOOLEAN, relock \in Relocks :
          LoggedSet(k, open_ok, relock)
             /\ UNCHANGED <<service_vars, quorum_vars, cluster_vars>>
    \/ \E k \in WalKeys, open_ok \in BOOLEAN, relock \in Relocks :
          LoggedDelete(k, open_ok, relock)
             /\ UNCHANGED <<service_vars, quorum_vars, cluster_vars>>
    \/ \E k \in WalKeys, x \in Versions, open_ok \in BOOLEAN, relock \in Relocks :
          LoggedCAS(k, x, open_ok, relock)
             /\ UNCHANGED <<service_vars, quorum_vars, cluster_vars>>
    \/ snapshots_ = <<>> /\ CreateSnapshot
          /\ UNCHANGED <<service_vars, quorum_vars, cluster_vars>>
    \/ \E sequence \in 1 .. (MaxWalOps + 1), headerless \in HeaderlessReads :
          Truncate(sequence, headerless)
             /\ UNCHANGED <<service_vars, quorum_vars, cluster_vars>>
    \/ Crash /\ UNCHANGED <<service_vars, quorum_vars, cluster_vars>>
    \/ \E headerless \in HeaderlessReads, ties_reversed \in BOOLEAN :
          RecoverNode(headerless, ties_reversed)
             /\ UNCHANGED <<service_vars, quorum_vars, cluster_vars>>

\* The node with attention to recovery: several snapshots, snapshot files
\* that become unreadable, recovery run in place and run twice. Files open
\* and the relocked mutex lets Sync return.
RecoveryNext ==
    \/ WalOpen(TRUE) /\ UNCHANGED <<service_vars, quorum_vars, cluster_vars>>
    \/ \E k \in WalKeys :
          LoggedSet(k, TRUE, "returns")
             /\ UNCHANGED <<service_vars, quorum_vars, cluster_vars>>
    \/ \E k \in WalKeys :
          LoggedDelete(k, TRUE, "returns")
             /\ UNCHANGED <<service_vars, quorum_vars, cluster_vars>>
    \/ CreateSnapshot /\ UNCHANGED <<service_vars, quorum_vars, cluster_vars>>
    \/ \E id \in SnapIds :
          LoseSnapshot(id) /\ UNCHANGED <<service_vars, quorum_vars, cluster_vars>>
    \/ \E sequence \in 1 .. (MaxWalOps + 1), headerless \in HeaderlessReads :
          Truncate(sequence, headerless)
             /\ UNCHANGED <<service_vars, quorum_vars, cluster_vars>>
    \/ Crash /\ UNCHANGED <<service_vars, quorum_vars, cluster_vars>>
    \/ \E headerless \in HeaderlessReads, ties_reversed \in BOOLEAN :
          RecoverNode(headerless, ties_reversed)
             /\ UNCHANGED <<service_vars, quorum_vars, cluster_vars>>
    \/ \E headerless \in HeaderlessReads, ties_reversed \in BOOLEAN :
          RecoverInPlace(headerless, ties_reversed)
             /\ UNCHANGED <<service_vars, quorum_vars, cluster_vars>>
    \/ \E headerless \in HeaderlessReads :
          RecoverAgain(headerless) /\ UNCHANGED <<service_vars, quorum_vars, cluster_vars>>

\* C8: after a crash and the recovery of a fresh process, GET returns for
\* every key the presence, value and version the engine returned before
\* the crash, whenever every record of an applied mutation had left the
\* stream for the disk, wherever a snapshot (and the truncation that follows
\* it) was taken.
C8_RecoveryEquivalent ==
    (wlog.just_recovered /\ wlog.durable) =>
        \A k \in Keys : View(storage, k, now) = wlog.pre_crash[k]

\* C9: the sequence numbers given to the node's WAL records are strictly
\* increasing in append order, hence unique and never reused, across
\* rotation and across a restart of the node.
C9_SequenceStrictlyIncreasing ==
    \A i, j \in 1 .. Len(wlog.assigned) :
        i < j => wlog.assigned[i] < wlog.assigned[j]

\* C10: an append that returns failure leaves the sequence counter where
\* it was and puts no record into the log.
C10_FailedAppendKeepsSequence ==
    (wlog.last_append.called /\ wlog.last_append.result = "false") =>
        /\ wlog.last_append.seq_after = wlog.last_append.seq_before
        /\ ~wlog.last_append.written

C12_FallsBackToOlderSnapshot ==
    wlog.runs >= 1 =>
        LET good == {snapshots_[i] : i \in DOMAIN snapshots_} \cap
                    {id \in SnapIds : snap_disk[id].exists}
        IN  IF good = {} THEN wlog.restored = Nullopt
            ELSE /\ wlog.restored \in good
                 /\ \A id \in good : id <= wlog.restored

\* C13 (as claimed): once the sequences up to S are declared covered and
\* the files before S + 1 truncated, a record appended with a sequence
\* above S that has left the stream is in a readable file of the WAL
\* directory: truncation removed no file that was still to receive it.
C13_TruncationKeepsLaterRecords ==
    (/\ wlog.covered # Nullopt
     /\ wlog.last_append.called /\ wlog.last_append.result = "true"
     /\ wlog.last_append.seq_after > wlog.covered
     /\ wal.buffer = <<>>)
    => \E id \in LogIds :
          /\ ReadWALFile(wal_disk, id, "fail").status = "empty"
          /\ \E i \in 1 .. Len(wal_disk[id].records) :
                wal_disk[id].records[i].sequence_number
                   = wlog.last_append.seq_after

-----------------------------------------------------------------------------
(* Consistent hash ring (hash_ring.cpp) *)

\* the 64-bit hash space, scaled down
HashSpace == 64

virtual_nodes_per_node == 2

NodeIds == {"n1", "n2", "n3"}

\* HashRing::hash (MurmurHash3) on the strings that occur: the virtual-node
\* identifiers "node_id:i" and the keys
hash(s) ==
    CASE s = "n1:0" -> 10 [] s = "n2:0" -> 20 [] s = "n1:1" -> 30
      [] s = "n3:0" -> 40 [] s = "n2:1" -> 50 [] s = "n3:1" -> 60
      [] s = "n1:2" -> 3 [] s = "n2:2" -> 33 [] s = "n3:2" -> 53
      [] s = "k1" -> 5 [] s = "k2" -> 25 [] s = "k3" -> 45
      [] s = "n1" -> 12 [] s = "n2" -> 22 [] s = "n3" -> 42
      [] s = "n4:0" -> 60 [] s = "n4:1" -> 7 [] s = "n4:2" -> 57
      [] s = "n4" -> 52
      [] OTHER -> 0

vnode_key(node_id, i) ==
    node_id \o ":" \o (CASE i = 0 -> "0" [] i = 1 -> "1" [] i = 2 -> "2"
                         [] OTHER -> "3")

\* HashRing(): no nodes; ring_ maps a hash to a node id
EmptyRing == [ring_ |-> {}, nodes_ |-> {}]

\* HashRing::add_node
add_node(r, node_id) ==
    IF node_id \in r.nodes_
    THEN r
    ELSE LET hs == {hash(vnode_key(node_id, i)) :
                       i \in 0 .. (virtual_nodes_per_node - 1)}
         IN  [ring_ |-> {v \in r.ring_ : v.hash \notin hs}
                          \cup {[hash |-> h, node_id |-> node_id] : h \in hs},
              nodes_ |-> r.nodes_ \cup {node_id}]

\* HashRing::remove_node
remove_node(r, node_id) ==
    IF node_id \notin r.nodes_
    THEN r
    ELSE LET hs == {hash(vnode_key(node_id, i)) :
                       i \in 0 .. (virtual_nodes_per_node - 1)}
         IN  [ring_ |-> {v \in r.ring_ : v.hash \notin hs},
              nodes_ |-> r.nodes_ \ {node_id}]

\* how far clockwise the virtual node at hash p lies from
\* find_next_node(h) = ring_.lower_bound(h), wrapping at the end of the map
Clockwise(h, p) == IF p >= h THEN p - h ELSE p - h + HashSpace

\* HashRing::get_replicas: walk the ring clockwise from the key's hash and
\* collect the first n distinct physical nodes, in the order met
get_replicas(r, key, n) ==
    LET h == hash(key)
        live == {v \in r.ring_ : v.node_id \in r.nodes_}
        first(id) == CHOOSE d \in {Clockwise(h, v.hash) :
                                      v \in {w \in live : w.node_id = id}} :
                        \A v \in {w \in live : w.node_id = id} :
                           d <= Clockwise(h, v.hash)
        ids == {v.node_id : v \in live}
        m == IF n <= Cardinality(r.nodes_) THEN n ELSE Cardinality(r.nodes_)
        cnt == IF m <= Cardinality(ids) THEN m ELSE Cardinality(ids)
        RECURSIVE walk(_, _)
        walk(acc, rest) ==
            IF Len(acc) = cnt \/ rest = {}
            THEN acc
            ELSE LET nxt == CHOOSE id \in rest :
                               \A o \in rest : first(id) <= first(o)
                 IN  walk(Append(acc, nxt), rest \ {nxt})
    IN  IF r.ring_ = {} \/ n = 0 THEN <<>> ELSE walk(<<>>, ids)

-----------------------------------------------------------------------------
(* Asynchronous replication (replication_manager.cpp) *)

\* ReplicationManager::Config
node_id == "n1"
replication_factor == 2
batch_size == 2
max_queue_size == 2

MaxEnqueues == 3
MaxTimeouts == 1

FollowerIds == NodeIds \ {node_id}

RpcOutcomes == {"ok", "unavailable", "deadline"}

NoEnqueue == [called |-> FALSE, result |-> FALSE, entry |-> <<>>]

NoBatch == [entries |-> <<>>, targets |-> {}]

ReplicationInit ==
    /\ queue_ = <<>>
    /\ follower = [n \in FollowerIds |-> EmptyEngine]
    /\ inflight = [n \in FollowerIds |-> <<>>]
    /\ rlog = [enqueued |-> 0, timeouts |-> 0, last_enqueue |-> NoEnqueue,
               last_batch |-> NoBatch,
               applied |-> [n \in FollowerIds |-> <<>>]]

\* QueueWrite / QueueDelete: the entry is refused when the queue is full
Enqueue(entry) ==
    /\ rlog.enqueued < MaxEnqueues
    /\ \E full \in {Len(queue_) >= max_queue_size} :
          /\ queue_' = IF full THEN queue_ ELSE Append(queue_, entry)
          /\ rlog' = [rlog EXCEPT
                !.enqueued = @ + 1,
                !.last_enqueue = [called |-> TRUE, result |-> ~full,
                                  entry |-> entry]]
    /\ UNCHANGED <<follower, inflight>>

\* ReplicationManager::QueueWrite; queued_at is the steady clock, here the
\* number of the enqueue call
QueueWrite(key, value, ttl_seconds, version) ==
    Enqueue([op |-> "SET", key |-> key, value |-> value,
             ttl_seconds |-> ttl_seconds, version |-> version,
             queued_at |-> rlog.enqueued + 1])

\* ReplicationManager::QueueDelete
QueueDelete(key, version) ==
    Enqueue([op |-> "DELETE", key |-> key, value |-> "",
             ttl_seconds |-> 0, version |-> version,
             queued_at |-> rlog.enqueued + 1])

\* ReplicationServiceImpl::Replicate on one entry: a SET is stored with the
\* version it carries, a DELETE removes the key; neither looks at the
\* version the follower holds
ReplicateEntry(eng, entry, t) ==
    IF entry.op = "SET"
    THEN EngineSet(eng, entry.key,
                   [present |-> TRUE, value |-> entry.value,
                    ttl_seconds |-> IF entry.ttl_seconds > 0
                                    THEN entry.ttl_seconds ELSE Nullopt,
                    expires_at_ms |-> Nullopt, version |-> entry.version,
                    created_at_ms |-> t])
    ELSE EngineDel(eng, entry.key)

\* ReplicationServiceImpl::Replicate: the entries of the batch in order
RECURSIVE Replicate(_, _, _)
Replicate(eng, entries, t) ==
    IF entries = <<>>
    THEN eng
    ELSE Replicate(ReplicateEntry(eng, Head(entries), t), Tail(entries), t)

\* what the handler adds to the follower's history of applied entries
AppliedBy(entries) ==
    [i \in 1 .. Len(entries) |->
        [key |-> entries[i].key, queued_at |-> entries[i].queued_at]]

\* SendBatch: the replica set of the first entry's key, without this node
Targets(entries) ==
    LET rs == get_replicas(ring_, entries[1].key, replication_factor)
    IN  {rs[i] : i \in 1 .. Len(rs)} \ {node_id}

\* ReplicationManager::SendBatch: one blocking Replicate call per replica.
\* A call returns after the follower's handler ("ok"), without the batch
\* having reached the follower ("unavailable"), or at rpc_timeout_ms with
\* the batch still on its way to the handler ("deadline").
SendBatch(entries, outcome) ==
    \E targets \in {Targets(entries)} :
       /\ \A n \in FollowerIds \ targets : outcome[n] = "unavailable"
       /\ \E late \in {{n \in targets : outcome[n] = "deadline"}} :
             /\ rlog.timeouts + Cardinality(late) <= MaxTimeouts
             /\ follower' = [n \in FollowerIds |->
                   IF n \in targets /\ outcome[n] = "ok"
                   THEN Replicate(follower[n], entries, now)
                   ELSE follower[n]]
             /\ inflight' = [n \in FollowerIds |->
                   IF n \in late THEN Append(inflight[n], entries)
                   ELSE inflight[n]]
             /\ rlog' = [rlog EXCEPT
                   !.timeouts = @ + Cardinality(late),
                   !.last_batch = [entries |-> entries, targets |-> targets],
                   !.applied = [n \in FollowerIds |->
                       IF n \in targets /\ outcome[n] = "ok"
                       THEN @[n] \o AppliedBy(entries) ELSE @[n]]]

\* ReplicationManager::ReplicationWorker, one round of its loop: take up to
\* batch_size entries from the front of the queue and send them
ReplicationWorker(outcome) ==
    /\ queue_ # <<>>
    /\ \E k \in {IF Len(queue_) < batch_size THEN Len(queue_)
                 ELSE batch_size} :
          /\ queue_' = SubSeq(queue_, k + 1, Len(queue_))
          /\ SendBatch(SubSeq(queue_, 1, k), outcome)

\* the follower's handler for a batch that outlived the primary's deadline
LateReplicate(n, i) ==
    /\ i \in 1 .. Len(inflight[n])
    /\ follower' = [follower EXCEPT
          ![n] = Replicate(@, inflight[n][i], now)]
    /\ inflight' = [inflight EXCEPT
          ![n] = SubSeq(@, 1, i - 1) \o SubSeq(@, i + 1, Len(@))]
    /\ rlog' = [rlog EXCEPT
          !.applied[n] = @ \o AppliedBy(inflight[n][i])]
    /\ UNCHANGED queue_

ReplicationNext ==
    \/ \E key \in Keys, value \in Values, version \in Versions :
          /\ QueueWrite(key, value, 0, version)
          /\ UNCHANGED <<engine_vars, quorum_vars, wal_vars, admin_vars,
                         membership_vars, failover_vars>>
    \/ \E key \in Keys, version \in Versions :
          /\ QueueDelete(key, version)
          /\ UNCHANGED <<engine_vars, quorum_vars, wal_vars, admin_vars,
                         membership_vars, failover_vars>>
    \/ \E outcome \in [FollowerIds -> RpcOutcomes] :
          /\ ReplicationWorker(outcome)
          /\ UNCHANGED <<engine_vars, quorum_vars, wal_vars, admin_vars,
                         membership_vars, failover_vars>>
    \/ \E n \in FollowerIds, i \in 1 .. MaxTimeouts :
          /\ LateReplicate(n, i)
          /\ UNCHANGED <<engine_vars, quorum_vars, wal_vars, admin_vars,
                         membership_vars, failover_vars>>

\* C14 (as claimed): a replication entry older than what the follower holds
\* is rejected, so no step lowers the version a follower stores for a key.
C14_FollowerVersionNeverDecreases ==
    [][\A n \in FollowerIds, k \in Keys :
          (follower[n].data[k].present /\ follower'[n].data[k].present)
             => follower'[n].data[k].version >= follower[n].data[k].version
      ]_<<follower>>

\* C15 (as claimed): at every follower the entries applied for one key
\* appear in the order the primary enqueued them.
C15_PerKeyFIFO ==
    \A n \in FollowerIds :
       \A i, j \in 1 .. Len(rlog.applied[n]) :
          (i < j /\ rlog.applied[n][i].key = rlog.applied[n][j].key)
             => rlog.applied[n][i].queued_at < rlog.applied[n][j].queued_at

\* C16 (as claimed): an enqueue on a queue that holds max_queue_size
\* entries is accepted, and the queue then holds what it held without its
\* oldest entry, followed by the new one.
C16_OverflowDropsOldest ==
    [][(rlog'.enqueued = rlog.enqueued + 1
        /\ Len(queue_) >= max_queue_size)
       => /\ rlog'.last_enqueue.result
          /\ queue_' = Append(Tail(queue_), rlog'.last_enqueue.entry)
      ]_<<queue_, rlog>>

\* C17 (as claimed): every entry of a batch goes to the followers of its
\* own key and to no other node.
C17_EntriesReachOwnReplicas ==
    \A i \in 1 .. Len(rlog.last_batch.entries) :
       rlog.last_batch.targets
          = {get_replicas(ring_, rlog.last_batch.entries[i].key,
                          replication_factor)[j] :
                j \in 1 .. replication_factor} \ {node_id}

-----------------------------------------------------------------------------
(* Membership and failure detection (membership_manager.cpp) *)

\* MembershipManager::Config
self_node_id == "n1"
failure_threshold == 2
dead_threshold == 3

MaxScans == 4
MaxMemberOps == 2

NodeStatus == {"HEALTHY", "UNHEALTHY", "DEAD"}

\* a node id without a record in nodes_
NoNodeInfo == [present |-> FALSE, status |-> "HEALTHY",
               consecutive_failures |-> 0]

\* NodeInfo(): HEALTHY, no failures
NewNodeInfo == [present |-> TRUE, status |-> "HEALTHY",
                consecutive_failures |-> 0]

NoCheck == [node |-> "", healthy |-> FALSE, found |-> FALSE]

MembershipInit ==
    /\ nodes_ = [n \in NodeIds |-> NewNodeInfo]
    /\ event_callback_ = FALSE
    /\ nodes_to_check = <<>>
    /\ mlog = [scans |-> 0, ops |-> 0, events |-> <<>>, last |-> NoCheck]

\* MembershipManager::SetNodeEventCallback
SetNodeEventCallback ==
    /\ ~event_callback_
    /\ event_callback_' = TRUE
    /\ UNCHANGED <<nodes_, nodes_to_check, mlog>>

\* MembershipManager::AddNode
AddNode(n) ==
    /\ mlog.ops < MaxMemberOps
    /\ ~nodes_[n].present
    /\ nodes_' = [nodes_ EXCEPT ![n] = NewNodeInfo]
    /\ mlog' = [mlog EXCEPT !.ops = @ + 1]
    /\ UNCHANGED <<event_callback_, nodes_to_check>>

\* MembershipManager::RemoveNode
RemoveNode(n) ==
    /\ mlog.ops < MaxMemberOps
    /\ nodes_[n].present
    /\ nodes_' = [nodes_ EXCEPT ![n] = NoNodeInfo]
    /\ mlog' = [mlog EXCEPT !.ops = @ + 1]
    /\ UNCHANGED <<event_callback_, nodes_to_check>>

\* the orders in which an iteration over the unordered_map may visit ids
Orders(ids) ==
    {f \in [1 .. Cardinality(ids) -> ids] :
        \A i, j \in 1 .. Cardinality(ids) : i # j => f[i] # f[j]}

\* HeartbeatWorker, top of the loop: the peers to check, self left out
ScanStart ==
    /\ nodes_to_check = <<>>
    /\ mlog.scans < MaxScans
    /\ nodes_to_check' \in
          Orders({n \in NodeIds : nodes_[n].present /\ n # self_node_id})
    /\ mlog' = [mlog EXCEPT !.scans = @ + 1]
    /\ UNCHANGED <<nodes_, event_callback_>>

\* the status a failed check leaves, with the thresholds compared by >
StatusAfterFailure_StrictThreshold(status, failures) ==
    IF failures > dead_threshold
    THEN "DEAD"
    ELSE IF failures > failure_threshold
         THEN (IF status = "HEALTHY" THEN "UNHEALTHY" ELSE status)
         ELSE status

\* HeartbeatWorker, the threshold checks after a failed check that brought
\* the count to failures
StatusAfterFailure(status, failures) ==
    IF failures >= dead_threshold
    THEN "DEAD"
    ELSE IF failures >= failure_threshold
         THEN (IF status # "UNHEALTHY" /\ status # "DEAD"
               THEN "UNHEALTHY" ELSE status)
         ELSE status

\* MembershipManager::UpdateNodeStatus: the events after the call
UpdateNodeStatus(events, n, old_status, new_status) ==
    IF old_status = new_status \/ ~event_callback_
    THEN events
    ELSE Append(events, [node |-> n, status |-> new_status])

\* HeartbeatWorker, one peer of the scan: the health check and the update
\* of the peer's record under nodes_mutex_
CheckNode(healthy) ==
    /\ nodes_to_check # <<>>
    /\ nodes_to_check' = Tail(nodes_to_check)
    /\ \E n \in {Head(nodes_to_check)} :
          IF ~nodes_[n].present
          THEN /\ mlog' = [mlog EXCEPT
                     !.last = [node |-> n, healthy |-> healthy,
                               found |-> FALSE]]
               /\ UNCHANGED <<nodes_, event_callback_>>
          ELSE \E failures \in {IF healthy THEN 0
                                ELSE nodes_[n].consecutive_failures + 1} :
               \E status \in {IF healthy THEN "HEALTHY"
                              ELSE StatusAfterFailure(nodes_[n].status,
                                                      failures)} :
                  /\ nodes_' = [nodes_ EXCEPT
                        ![n] = [present |-> TRUE, status |-> status,
                                consecutive_failures |-> failures]]
                  /\ mlog' = [mlog EXCEPT
                        !.events = UpdateNodeStatus(@, n, nodes_[n].status,
                                                    status),
                        !.last = [node |-> n, healthy |-> healthy,
                                  found |-> TRUE]]
                  /\ UNCHANGED event_callback_

MembershipNext ==
    \/ SetNodeEventCallback
       /\ UNCHANGED <<engine_vars, quorum_vars, wal_vars, admin_vars, replication_vars,
                      failover_vars>>
    \/ \E n \in NodeIds \ {self_node_id} :
          /\ AddNode(n)
          /\ UNCHANGED <<engine_vars, quorum_vars, wal_vars, admin_vars,
                         replication_vars, failover_vars>>
    \/ \E n \in NodeIds \ {self_node_id} :
          /\ RemoveNode(n)
          /\ UNCHANGED <<engine_vars, quorum_vars, wal_vars, admin_vars,
                         replication_vars, failover_vars>>
    \/ ScanStart
       /\ UNCHANGED <<engine_vars, quorum_vars, wal_vars, admin_vars, replication_vars,
                      failover_vars>>
    \/ \E healthy \in BOOLEAN :
          /\ CheckNode(healthy)
          /\ UNCHANGED <<engine_vars, quorum_vars, wal_vars, admin_vars,
                         replication_vars, failover_vars>>

\* the peer that the step from this state to the next has checked, if any
Checked(n) ==
    /\ Len(nodes_to_check') < Len(nodes_to_check)
    /\ mlog'.last.node = n
    /\ mlog'.last.found

\* C18: a failed check moves a HEALTHY peer to UNHEALTHY when its
\* consecutive failures reach failure_threshold and an UNHEALTHY peer to
\* DEAD when they reach dead_threshold, a successful check moves an
\* UNHEALTHY or DEAD peer to HEALTHY with the count at zero, no other
\* change of status happens in a check, and the registered callback runs
\* once with the new status in exactly the steps that change a status.
C18_HealthStateMachine ==
    [][/\ \A n \in NodeIds :
            Checked(n) =>
               LET old == nodes_[n]
                   new == nodes_'[n]
                   failed == old.consecutive_failures + 1
                   expected ==
                      IF mlog'.last.healthy
                      THEN "HEALTHY"
                      ELSE IF old.status = "HEALTHY"
                              /\ failed = failure_threshold
                           THEN "UNHEALTHY"
                           ELSE IF old.status = "UNHEALTHY"
                                   /\ failed = dead_threshold
                                THEN "DEAD"
                                ELSE old.status
               IN  /\ new.status = expected
                   /\ mlog'.last.healthy => new.consecutive_failures = 0
                   /\ ~mlog'.last.healthy => new.consecutive_failures = failed
                   /\ mlog'.events =
                         IF new.status # old.status /\ event_callback_
                         THEN Append(mlog.events,
                                     [node |-> n, status |-> new.status])
                         ELSE mlog.events
       /\ (\A n \in NodeIds : ~Checked(n)) => mlog'.events = mlog.events
      ]_<<nodes_, event_callback_, nodes_to_check, mlog>>

\* a peer has gone HEALTHY -> UNHEALTHY -> DEAD -> HEALTHY, each move
\* reported to the callback
C18_Witness ==
    \E n \in NodeIds :
       /\ nodes_[n].present /\ nodes_[n].status = "HEALTHY"
       /\ SelectSeq(mlog.events, LAMBDA e : e.node = n)
             = << [node |-> n, status |-> "UNHEALTHY"],
                  [node |-> n, status |-> "DEAD"],
                  [node |-> n, status |-> "HEALTHY"] >>

-----------------------------------------------------------------------------
(* Failover (failover_manager.cpp) *)

\* FailoverManager::Config
auto_failover_enabled == TRUE

MaxFailoverCalls == 2
MaxCancels == 1

\* the nodes failover is asked for
FailedNodes == {"n2"}

\* the empty string InitiateFailover returns when it starts nothing
NoFailoverId == <<>>

\* an id no InitiateFailover has produced
UnknownFailoverId == <<"invalid-id">>

\* a thread outside InitiateFailover
Idle == [pc |-> "idle", failed_node_id |-> "", failover_id |-> NoFailoverId,
         new_primary_id |-> ""]

NoCancel == [called |-> FALSE, failover_id |-> NoFailoverId,
             result |-> FALSE]

FailoverInit ==
    /\ ring_ = add_node(add_node(add_node(EmptyRing, "n1"), "n2"), "n3")
    /\ failovers_ = {}
    /\ total_failovers_ = 0
    /\ fo = [t \in Threads |-> Idle]
    /\ flog = [calls |-> 0, cancels |-> 0, returned |-> <<>>,
               cancelled |-> {}, last_cancel |-> NoCancel]

\* FailoverManager::GenerateFailoverId: "failover-<ms>-<total % 10000>"
GenerateFailoverId == <<now, total_failovers_ % 10000>>

\* FailoverManager::SelectNewPrimary: the first replica of the failed
\* node's id, taken as a key, that is not the failed node
SelectNewPrimary(failed_node_id) ==
    LET rs == get_replicas(ring_, failed_node_id, replication_factor)
        others == {i \in 1 .. Len(rs) : rs[i] # failed_node_id}
    IN  IF others = {}
        THEN ""
        ELSE rs[CHOOSE i \in others : \A j \in others : i <= j]

\* std::map assignment failovers_[id] = info
Stored(map, info) ==
    {f \in map : f.failover_id # info.failover_id} \cup {info}

\* InitiateFailover up to the selection of the new primary
InitiateFailover(t, failed_node_id) ==
    /\ fo[t].pc = "idle"
    /\ flog.calls < MaxFailoverCalls
    /\ IF ~auto_failover_enabled \/ SelectNewPrimary(failed_node_id) = ""
       THEN /\ flog' = [flog EXCEPT
                  !.calls = @ + 1,
                  !.returned = Append(@,
                      [failed_node_id |-> failed_node_id,
                       failover_id |-> NoFailoverId])]
            /\ UNCHANGED fo
       ELSE /\ fo' = [fo EXCEPT
                  ![t] = [pc |-> "store",
                          failed_node_id |-> failed_node_id,
                          failover_id |-> GenerateFailoverId,
                          new_primary_id |->
                              SelectNewPrimary(failed_node_id)]]
            /\ flog' = [flog EXCEPT !.calls = @ + 1]
    /\ UNCHANGED <<ring_, failovers_, total_failovers_>>

\* InitiateFailover: the record goes into failovers_ under failovers_mutex_
\* and total_failovers_ is incremented
StoreFailover(t) ==
    /\ fo[t].pc = "store"
    /\ failovers_' = Stored(failovers_,
          [failover_id |-> fo[t].failover_id,
           failed_node_id |-> fo[t].failed_node_id,
           new_primary_id |-> fo[t].new_primary_id,
           in_progress |-> TRUE, status |-> "initiated"])
    /\ total_failovers_' = total_failovers_ + 1
    /\ fo' = [fo EXCEPT ![t].pc = "execute"]
    /\ UNCHANGED <<ring_, flog>>

\* FailoverManager::UpdateTopology: the ring without the failed node
UpdateTopology(failed_node_id) == remove_node(ring_, failed_node_id)

\* FailoverManager::ExecuteFailover under failovers_mutex_: promoting, the
\* ring update, complete; then InitiateFailover returns the id
ExecuteFailover(t) ==
    /\ fo[t].pc = "execute"
    /\ \E info \in {f \in failovers_ : f.failover_id = fo[t].failover_id} :
          /\ ring_' = UpdateTopology(info.failed_node_id)
          /\ failovers_' = Stored(failovers_,
                [info EXCEPT !.status = "complete", !.in_progress = FALSE])
    /\ fo' = [fo EXCEPT ![t] = Idle]
    /\ flog' = [flog EXCEPT
          !.returned = Append(@, [failed_node_id |-> fo[t].failed_node_id,
                                  failover_id |-> fo[t].failover_id])]
    /\ UNCHANGED total_failovers_

\* FailoverManager::CancelFailover
CancelFailover(failover_id) ==
    /\ flog.cancels < MaxCancels
    /\ \E hit \in {{f \in failovers_ : /\ f.failover_id = failover_id
                                        /\ f.in_progress}} :
          /\ failovers_' =
                IF hit = {}
                THEN failovers_
                ELSE Stored(failovers_,
                        [(CHOOSE f \in hit : TRUE) EXCEPT
                            !.in_progress = FALSE, !.status = "cancelled"])
          /\ flog' = [flog EXCEPT
                !.cancels = @ + 1,
                !.cancelled = IF hit = {} THEN @ ELSE @ \cup {failover_id},
                !.last_cancel = [called |-> TRUE, failover_id |-> failover_id,
                                 result |-> hit # {}]]
    /\ UNCHANGED <<ring_, total_failovers_, fo>>

FailoverNext ==
    \/ Tick /\ UNCHANGED <<engine_only_vars, quorum_vars, wal_vars,
                           cluster_vars>>
    \/ \E t \in Threads, failed_node_id \in FailedNodes :
          /\ InitiateFailover(t, failed_node_id)
          /\ UNCHANGED <<engine_vars, quorum_vars, wal_vars, admin_vars,
                         replication_vars, membership_vars>>
    \/ \E t \in Threads :
          /\ StoreFailover(t)
          /\ UNCHANGED <<engine_vars, quorum_vars, wal_vars, admin_vars,
                         replication_vars, membership_vars>>
    \/ \E t \in Threads :
          /\ ExecuteFailover(t)
          /\ UNCHANGED <<engine_vars, quorum_vars, wal_vars, admin_vars,
                         replication_vars, membership_vars>>
    \/ \E failover_id \in {f.failover_id : f \in failovers_}
                          \cup {UnknownFailoverId} :
          /\ CancelFailover(failover_id)
          /\ UNCHANGED <<engine_vars, quorum_vars, wal_vars, admin_vars,
                         replication_vars, membership_vars>>

\* the ids InitiateFailover has returned so far
ReturnedIds ==
    {flog.returned[i].failover_id : i \in 1 .. Len(flog.returned)}
       \ {NoFailoverId}

\* C19 (as claimed): for one failed node there is at most one failover
\* record, and every InitiateFailover call for that node returns the same
\* id, that of the first failover.
C19_OneFailoverPerNode ==
    \A d \in NodeIds :
       /\ Cardinality({f \in failovers_ : f.failed_node_id = d}) <= 1
       /\ \A i, j \in 1 .. Len(flog.returned) :
             (flog.returned[i].failed_node_id = d
              /\ flog.returned[j].failed_node_id = d)
                => flog.returned[i].failover_id = flog.returned[j].failover_id

\* C20 (as claimed): CancelFailover with an id that InitiateFailover
\* returned answers true, CancelFailover with an unknown id answers false,
\* and a failover that was cancelled stays "cancelled".
C20_CancelStopsFailover ==
    /\ (flog.last_cancel.called
        /\ flog.last_cancel.failover_id \in ReturnedIds)
          => flog.last_cancel.result
    /\ (flog.last_cancel.called
        /\ flog.last_cancel.failover_id = UnknownFailoverId)
          => ~flog.last_cancel.result
    /\ \A f \in failovers_ :
          f.failover_id \in flog.cancelled => f.status = "cancelled"

-----------------------------------------------------------------------------
(* Failover of a node that the failure detector has declared DEAD *)

PromotionNext ==
    \/ ScanStart
       /\ UNCHANGED <<engine_vars, quorum_vars, wal_vars, admin_vars, replication_vars,
                      failover_vars>>
    \/ \E healthy \in BOOLEAN :
          /\ CheckNode(healthy)
          /\ UNCHANGED <<engine_vars, quorum_vars, wal_vars, admin_vars,
                         replication_vars, failover_vars>>
    \/ \E t \in Threads, failed_node_id \in NodeIds \ {self_node_id} :
          /\ nodes_[failed_node_id].status = "DEAD"
          /\ InitiateFailover(t, failed_node_id)
          /\ UNCHANGED <<engine_vars, quorum_vars, wal_vars, admin_vars,
                         replication_vars, membership_vars>>
    \/ \E t \in Threads :
          /\ StoreFailover(t)
          /\ UNCHANGED <<engine_vars, quorum_vars, wal_vars, admin_vars,
                         replication_vars, membership_vars>>
    \/ \E t \in Threads :
          /\ ExecuteFailover(t)
          /\ UNCHANGED <<engine_vars, quorum_vars, wal_vars, admin_vars,
                         replication_vars, membership_vars>>

\* C21 (as claimed): the new primary that InitiateFailover selects for a
\* dead node is HEALTHY, and it is the first node of the dead node's
\* replica list that is HEALTHY and is not the dead node.
C21_NewPrimaryIsHealthy ==
    [][\A t \in Threads :
          (fo[t].pc = "idle" /\ fo'[t].pc = "store")
             => LET dead == fo'[t].failed_node_id
                    rs == get_replicas(ring_, dead, replication_factor)
                    ok == {i \in 1 .. Len(rs) :
                              /\ rs[i] # dead
                              /\ nodes_[rs[i]].present
                              /\ nodes_[rs[i]].status = "HEALTHY"}
                IN  /\ ok # {}
                    /\ fo'[t].new_primary_id
                          = rs[CHOOSE i \in ok : \A j \in ok : i <= j]
      ]_<<fo, nodes_, ring_>>

-----------------------------------------------------------------------------
(* Rebalancing and draining (rebalance_orchestrator.cpp, admin_service.cpp) *)

RebalanceKeys == {"k1", "k2", "k3"}

\* RebalanceOrchestrator::batch_size_ and ClientConfig::max_replicas
batch_size_ == 2
max_replicas == 2

MaxJobs == 3
MaxStarts == 1

JobIds == 1 .. MaxJobs

\* std::nullopt of std::optional<Node>
NoNode == ""

\* HashRing::get_node: the owner of the first position clockwise of the key
get_node(r, key) ==
    IF r.ring_ = {}
    THEN NoNode
    ELSE LET h == hash(key)
             v == CHOOSE v \in r.ring_ :
                     \A w \in r.ring_ :
                        Clockwise(h, v.hash) <= Clockwise(h, w.hash)
         IN  IF v.node_id \in r.nodes_ THEN v.node_id ELSE NoNode

\* a ring built by add_node calls for the nodes of S
RECURSIVE RingOf(_)
RingOf(S) ==
    IF S = {}
    THEN EmptyRing
    ELSE LET n == CHOOSE n \in S : TRUE IN add_node(RingOf(S \ {n}), n)

NoJob ==
    [present |-> FALSE, is_drain |-> FALSE, source_node_id |-> NoNode,
     target_node_id |-> NoNode, keys_total |-> 0, keys_migrated |-> 0,
     completed |-> FALSE, failed |-> FALSE, pc |-> "none", entries |-> <<>>,
     i |-> 0, sent |-> {}, deleted |-> {}, set_failed |-> FALSE]

\* RebalanceJob(id, source, target); sent, deleted and set_failed record what
\* the job's thread did (history)
RebalanceJob(is_drain, source, target, total) ==
    [NoJob EXCEPT !.present = TRUE, !.is_drain = is_drain,
                  !.source_node_id = source, !.target_node_id = target,
                  !.keys_total = total, !.pc = "created"]

NoDrain == [pc |-> "idle", job_id |-> 0, all_keys |-> {}]

\* the orchestrator before any call, but for the engine's contents
OrchestratorIdle ==
    /\ old_ring_ = EmptyRing
    /\ new_ring_ = EmptyRing
    /\ jobs_ = [j \in JobIds |-> NoJob]
    /\ job_counter_ = 0
    /\ remote = [n \in NodeIds |-> {}]
    /\ drain = NoDrain
    /\ rblog = [starts |-> 0]

\* RebalanceOrchestrator(storage, client, old_ring, new_ring): any local
\* contents and any pair of rings
RebalanceInit ==
    /\ storage_ \in SUBSET RebalanceKeys
    /\ old_ring_ \in {RingOf(S) : S \in (SUBSET NodeIds) \ {{}}}
    /\ new_ring_ \in {RingOf(S) : S \in (SUBSET NodeIds) \ {{}}}
    /\ jobs_ = [j \in JobIds |-> NoJob]
    /\ job_counter_ = 0
    /\ remote = [n \in NodeIds |-> {}]
    /\ drain = NoDrain
    /\ rblog = [starts |-> 0]

\* RebalanceOrchestrator::calculate_affected_keys
calculate_affected_keys ==
    {k \in storage_ :
        /\ get_node(old_ring_, k) # NoNode
        /\ get_node(new_ring_, k) # NoNode
        /\ get_node(old_ring_, k) # get_node(new_ring_, k)}

\* RebalanceOrchestrator::group_keys_by_migration_path: (source, target) ->
\* the keys of that path; keys whose owner is unchanged have no path
group_keys_by_migration_path(keys) ==
    LET moving == {k \in keys :
                      /\ get_node(old_ring_, k) # NoNode
                      /\ get_node(new_ring_, k) # NoNode
                      /\ get_node(old_ring_, k) # get_node(new_ring_, k)}
        path(k) == <<get_node(old_ring_, k), get_node(new_ring_, k)>>
    IN  [p \in {path(k) : k \in moving} |-> {k \in moving : path(k) = p}]

\* the order of the std::map over (source, target) pairs of node ids
PathRank(p) ==
    LET rank(n) == CASE n = "n1" -> 1 [] n = "n2" -> 2 [] n = "n3" -> 3
                     [] OTHER -> 0
    IN  4 * rank(p[1]) + rank(p[2])

\* the loop of start_rebalance / start_drain over migration_paths: one job
\* per path, ids from generate_job_id in the map's order
CreateJobs(m, is_drain) ==
    LET position(p) ==
            Cardinality({q \in DOMAIN m : PathRank(q) < PathRank(p)}) + 1
    IN  /\ job_counter_ + Cardinality(DOMAIN m) <= MaxJobs
        /\ jobs_' = [j \in JobIds |->
                        IF \E p \in DOMAIN m : job_counter_ + position(p) = j
                        THEN LET p == CHOOSE p \in DOMAIN m :
                                         job_counter_ + position(p) = j
                             IN  RebalanceJob(is_drain, p[1], p[2],
                                              Cardinality(m[p]))
                        ELSE jobs_[j]]
        /\ job_counter_' = job_counter_ + Cardinality(DOMAIN m)

\* RebalanceOrchestrator::start_rebalance
start_rebalance ==
    /\ rblog.starts < MaxStarts
    /\ \E m \in {group_keys_by_migration_path(calculate_affected_keys)} :
          CreateJobs(m, FALSE)
    /\ rblog' = [rblog EXCEPT !.starts = @ + 1]
    /\ UNCHANGED <<storage_, old_ring_, new_ring_, remote, drain>>

\* AdminServiceImpl::DrainNode up to its wait loop, with
\* RebalanceOrchestrator::start_drain: the first job's id is what it waits on
DrainNode ==
    /\ drain.pc = "idle"
    /\ rblog.starts < MaxStarts
    /\ \E m \in {group_keys_by_migration_path(storage_)} :
          /\ CreateJobs(m, TRUE)
          /\ drain' = IF DOMAIN m = {}
                      THEN [pc |-> "done", job_id |-> 0,
                            all_keys |-> storage_]
                      ELSE [pc |-> "waiting", job_id |-> job_counter_ + 1,
                            all_keys |-> storage_]
    /\ rblog' = [rblog EXCEPT !.starts = @ + 1]
    /\ UNCHANGED <<storage_, old_ring_, new_ring_, remote>>

\* RebalanceOrchestrator::is_complete
is_complete(job_id) ==
    IF job_id \in JobIds /\ jobs_[job_id].present
    THEN jobs_[job_id].completed
    ELSE TRUE

\* DrainNode's wait loop sees the job it waits on completed
DrainComplete ==
    /\ drain.pc = "waiting"
    /\ is_complete(drain.job_id)
    /\ drain' = [drain EXCEPT !.pc = "done"]
    /\ UNCHANGED <<storage_, old_ring_, new_ring_, jobs_, job_counter_,
                   remote, rblog>>

\* RebalanceOrchestrator::cancel_job
cancel_job(job_id) ==
    /\ jobs_[job_id].present
    /\ jobs_' = [jobs_ EXCEPT ![job_id].failed = TRUE]

\* DrainNode's wait loop finds the timeout exceeded: cancel_job(job_id) of
\* the job it waits on, and the call returns
DrainTimeout ==
    /\ drain.pc = "waiting"
    /\ ~is_complete(drain.job_id)
    /\ cancel_job(drain.job_id)
    /\ drain' = [drain EXCEPT !.pc = "timed_out"]
    /\ UNCHANGED <<storage_, old_ring_, new_ring_, job_counter_, remote,
                   rblog>>

\* ShardingClient::Set with ExecuteSet: the key's replicas in the client's
\* ring are tried in order and the first one whose Set RPC succeeds ends the
\* call; accepted is the position of that replica, 0 when every RPC fails.
\* The result is the node that took the key, or NoNode ("All replicas
\* failed").  The client's ring holds the nodes of the new ring.
ClientSet(key, accepted) ==
    LET rs == get_replicas(new_ring_, key, max_replicas)
    IN  IF accepted \in 1 .. Len(rs) THEN rs[accepted] ELSE NoNode

\* RebalanceOrchestrator::migrate_batch: the keys are SET one after another
\* and the first failure ends the batch; accepted[x] tells which replica
\* takes the x-th key
migrate_batch(batch, target_node, accepted) ==
    LET landed(x) == ClientSet(batch[x], accepted[x])
        bad == {x \in 1 .. Len(batch) : landed(x) = NoNode}
        stop == IF bad = {} THEN Len(batch) + 1
                ELSE CHOOSE x \in bad : \A y \in bad : x <= y
    IN  IF target_node \notin new_ring_.nodes_
        THEN [ok |-> FALSE, sent |-> {}]
        ELSE [ok |-> bad = {},
              sent |-> {<<batch[x], landed(x)>> : x \in 1 .. (stop - 1)}]

\* execute_job, the for_each at its start: every local key whose owner in the
\* new ring is the job's target, in the engine's iteration order
JobCollect(j) ==
    /\ jobs_[j].present
    /\ jobs_[j].pc = "created"
    /\ \E entries \in Orders({k \in storage_ :
                                 get_node(new_ring_, k)
                                    = jobs_[j].target_node_id}) :
          jobs_' = [jobs_ EXCEPT ![j].entries = entries,
                                 ![j].keys_total = Len(entries),
                                 ![j].pc = "running"]
    /\ UNCHANGED <<storage_, old_ring_, new_ring_, job_counter_, remote,
                   drain, rblog>>

\* execute_job, one turn of the batch loop: migrate_batch, then
\* cleanup_migrated_keys (storage_->del of each key of the batch)
JobBatch(j, accepted) ==
    LET job == jobs_[j]
        last == IF job.i + batch_size_ <= Len(job.entries)
                THEN job.i + batch_size_ ELSE Len(job.entries)
        batch == SubSeq(job.entries, job.i + 1, last)
    IN  /\ job.present
        /\ job.pc = "running"
        /\ job.i < Len(job.entries)
        /\ ~job.failed
        /\ \E r \in {migrate_batch(batch, job.target_node_id, accepted)} :
              /\ remote' = [n \in NodeIds |->
                               remote[n] \cup {p[1] : p \in {q \in r.sent :
                                                              q[2] = n}}]
              /\ IF r.ok
                 THEN /\ storage_' = storage_ \ {batch[x] :
                                                   x \in 1 .. Len(batch)}
                      /\ jobs_' = [jobs_ EXCEPT
                            ![j].sent = @ \cup r.sent,
                            ![j].deleted = @ \cup {batch[x] :
                                                     x \in 1 .. Len(batch)},
                            ![j].keys_migrated = @ + Len(batch),
                            ![j].i = @ + batch_size_]
                 ELSE /\ storage_' = storage_
                      /\ jobs_' = [jobs_ EXCEPT
                            ![j].sent = @ \cup r.sent,
                            ![j].failed = TRUE,
                            ![j].set_failed = TRUE]
        /\ UNCHANGED <<old_ring_, new_ring_, job_counter_, drain, rblog>>

\* execute_job after the loop (no batch left, or the job failed or was
\* cancelled): completed = true
JobFinish(j) ==
    /\ jobs_[j].present
    /\ jobs_[j].pc = "running"
    /\ jobs_[j].i >= Len(jobs_[j].entries) \/ jobs_[j].failed
    /\ jobs_' = [jobs_ EXCEPT ![j].completed = TRUE, ![j].pc = "done"]
    /\ UNCHANGED <<storage_, old_ring_, new_ring_, job_counter_, remote,
                   drain, rblog>>

RebalanceNext ==
    \/ start_rebalance
       /\ UNCHANGED <<engine_vars, quorum_vars, wal_vars, replication_vars,
                      membership_vars, failover_vars, lock_vars,
                         ringlog, coordinator_vars, local_vars>>
    \/ DrainNode
       /\ UNCHANGED <<engine_vars, quorum_vars, wal_vars, replication_vars,
                      membership_vars, failover_vars, lock_vars,
                         ringlog, coordinator_vars, local_vars>>
    \/ DrainComplete
       /\ UNCHANGED <<engine_vars, quorum_vars, wal_vars, replication_vars,
                      membership_vars, failover_vars, lock_vars,
                         ringlog, coordinator_vars, local_vars>>
    \/ DrainTimeout
       /\ UNCHANGED <<engine_vars, quorum_vars, wal_vars, replication_vars,
                      membership_vars, failover_vars, lock_vars,
                         ringlog, coordinator_vars, local_vars>>
    \/ \E j \in JobIds :
          /\ JobCollect(j)
          /\ UNCHANGED <<engine_vars, quorum_vars, wal_vars, replication_vars,
                         membership_vars, failover_vars, lock_vars,
                         ringlog, coordinator_vars, local_vars>>
    \/ \E j \in JobIds, accepted \in [1 .. batch_size_ -> 0 .. max_replicas] :
          /\ JobBatch(j, accepted)
          /\ UNCHANGED <<engine_vars, quorum_vars, wal_vars, replication_vars,
                         membership_vars, failover_vars, lock_vars,
                         ringlog, coordinator_vars, local_vars>>
    \/ \E j \in JobIds :
          /\ JobFinish(j)
          /\ UNCHANGED <<engine_vars, quorum_vars, wal_vars, replication_vars,
                         membership_vars, failover_vars, lock_vars,
                         ringlog, coordinator_vars, local_vars>>

\* the keys a job sent to a node or deleted locally
Migrated(j) == jobs_[j].deleted \cup {p[1] : p \in jobs_[j].sent}

\* C22: within a migration job a key is deleted locally only after its SET on
\* the job's target node has succeeded; a job in which a SET failed is marked
\* failed; and a job is complete and not failed only when all the keys it
\* collected were processed.
C22_DeleteOnlyAfterTargetHasKey ==
    \A j \in JobIds :
       jobs_[j].present =>
          /\ \A k \in jobs_[j].deleted :
                <<k, jobs_[j].target_node_id>> \in jobs_[j].sent
          /\ jobs_[j].set_failed => jobs_[j].failed
          /\ (jobs_[j].completed /\ ~jobs_[j].failed) =>
                /\ jobs_[j].i >= Len(jobs_[j].entries)
                /\ jobs_[j].keys_migrated = jobs_[j].keys_total

\* C23: the orchestrator never migrates (sends or deletes locally) a key
\* whose owner in the new ring equals its owner in the old ring.
C23_UnaffectedKeysStay ==
    \A j \in JobIds :
       \A k \in Migrated(j) :
          get_node(old_ring_, k) # get_node(new_ring_, k)

\* C24: a drain creates jobs that cover every key stored locally when it
\* starts, and once the drain's timeout has elapsed no drain job is still
\* running uncancelled.
C24_DrainCoversAllAndCancelsOnTimeout ==
    /\ drain.pc # "idle" =>
          \A k \in drain.all_keys :
             \E j \in JobIds :
                /\ jobs_[j].present
                /\ jobs_[j].is_drain
                /\ jobs_[j].target_node_id = get_node(new_ring_, k)
    /\ drain.pc = "timed_out" =>
          \A j \in JobIds :
             (jobs_[j].present /\ jobs_[j].is_drain) =>
                jobs_[j].completed \/ jobs_[j].failed

-----------------------------------------------------------------------------
(* Locks held across the iteration over the engine (storage_engine.h
   for_each) and across network calls *)

MaxLockOps == 2

\* the operations that iterate over the engine or call the network
LockOps == {"RequestCatchup", "calculate_affected_keys", "migrate_batch"}

NoLockOp == [op |-> "none", pc |-> "idle", shard |-> 0, todo |-> {}]

LockInit ==
    /\ held = [t \in Threads |-> <<>>]
    /\ lt = [t \in Threads |-> NoLockOp]
    /\ net = [t \in Threads |-> FALSE]
    /\ lklog = [ops |-> 0]

\* the order the design gives the locks: ring, engine shard, WAL,
\* replication queue
LockRank(m) ==
    CASE m[1] = "ring" -> 1 [] m[1] = "shard" -> 2 [] m[1] = "wal" -> 3
      [] m[1] = "queue" -> 4 [] OTHER -> 5

\* a call of one of the operations starts on thread t
LockOpBegin(t, op) ==
    /\ lt[t].pc = "idle"
    /\ lklog.ops < MaxLockOps
    /\ lt' = [lt EXCEPT ![t] =
                 [op |-> op,
                  pc |-> IF op = "migrate_batch" THEN "all_nodes" ELSE "lock",
                  shard |-> 0, todo |-> {}]]
    /\ lklog' = [lklog EXCEPT !.ops = @ + 1]
    /\ UNCHANGED <<held, net>>

\* for_each, top of the loop over shards_: std::shared_lock on shard.mutex
ForEachLock(t) ==
    /\ lt[t].pc = "lock"
    /\ held' = [held EXCEPT ![t] = Append(@, <<"shard", lt[t].shard>>)]
    /\ lt' = [lt EXCEPT ![t].pc = "entries",
                        ![t].todo = {k \in storage_ :
                                        get_shard_index(k) = lt[t].shard}]
    /\ UNCHANGED <<net, lklog>>

\* for_each, fn(key, entry) for one entry of the shard, the shard's lock
\* held.  The callback of RequestCatchup writes the entry to the gRPC stream
\* (writer->Write); the callback of calculate_affected_keys calls
\* old_ring_->get_node(key) and new_ring_->get_node(key), each of which locks
\* its ring's mutex_ (one such call stands for both).
ForEachCallback(t) ==
    /\ lt[t].pc = "entries"
    /\ lt[t].todo # {}
    /\ IF lt[t].op = "RequestCatchup"
       THEN /\ net' = [net EXCEPT ![t] = TRUE]
            /\ lt' = [lt EXCEPT ![t].pc = "write"]
            /\ UNCHANGED held
       ELSE /\ \A u \in Threads :
                  \A x \in 1 .. Len(held[u]) : held[u][x] # <<"ring", 0>>
            /\ held' = [held EXCEPT ![t] = Append(@, <<"ring", 0>>)]
            /\ lt' = [lt EXCEPT ![t].pc = "get_node"]
            /\ UNCHANGED net
    /\ UNCHANGED lklog

\* the callback returns: writer->Write has returned, or get_node has
\* released the ring's mutex_; for_each goes on to the next entry
ForEachCallbackReturn(t) ==
    /\ lt[t].pc \in {"write", "get_node"}
    /\ net' = [net EXCEPT ![t] = FALSE]
    /\ held' = [held EXCEPT ![t] =
                   IF lt[t].pc = "get_node"
                   THEN SubSeq(@, 1, Len(@) - 1) ELSE @]
    /\ \E k \in lt[t].todo :
          lt' = [lt EXCEPT ![t].pc = "entries", ![t].todo = @ \ {k}]
    /\ UNCHANGED lklog

\* for_each, end of a shard: the shared_lock is released; the next shard
\* follows, or for_each returns
ForEachUnlock(t) ==
    /\ lt[t].pc = "entries"
    /\ lt[t].todo = {}
    /\ held' = [held EXCEPT ![t] = SubSeq(@, 1, Len(@) - 1)]
    /\ lt' = [lt EXCEPT ![t] =
                 IF lt[t].shard + 1 < num_shards
                 THEN [@ EXCEPT !.pc = "lock", !.shard = @ + 1]
                 ELSE NoLockOp]
    /\ UNCHANGED <<net, lklog>>

\* migrate_batch: new_ring_->get_all_nodes() locks and releases the ring's
\* mutex_; then client_->Set goes to the network with no lock held
MigrateBatchSet(t) ==
    /\ lt[t].pc = "all_nodes"
    /\ \A u \in Threads :
          \A x \in 1 .. Len(held[u]) : held[u][x] # <<"ring", 0>>
    /\ net' = [net EXCEPT ![t] = TRUE]
    /\ lt' = [lt EXCEPT ![t].pc = "set"]
    /\ UNCHANGED <<held, lklog>>

\* client_->Set has returned
MigrateBatchReturn(t) ==
    /\ lt[t].pc = "set"
    /\ net' = [net EXCEPT ![t] = FALSE]
    /\ lt' = [lt EXCEPT ![t] = NoLockOp]
    /\ UNCHANGED <<held, lklog>>

LocksNext ==
    \/ \E t \in Threads, op \in LockOps :
          /\ LockOpBegin(t, op)
          /\ UNCHANGED <<engine_vars, quorum_vars, wal_vars, replication_vars,
                         membership_vars, failover_vars, rebalance_vars,
                         ringlog, coordinator_vars, local_vars>>
    \/ \E t \in Threads :
          /\ ForEachLock(t)
          /\ UNCHANGED <<engine_vars, quorum_vars, wal_vars, replication_vars,
                         membership_vars, failover_vars, rebalance_vars,
                         ringlog, coordinator_vars, local_vars>>
    \/ \E t \in Threads :
          /\ ForEachCallback(t)
          /\ UNCHANGED <<engine_vars, quorum_vars, wal_vars, replication_vars,
                         membership_vars, failover_vars, rebalance_vars,
                         ringlog, coordinator_vars, local_vars>>
    \/ \E t \in Threads :
          /\ ForEachCallbackReturn(t)
          /\ UNCHANGED <<engine_vars, quorum_vars, wal_vars, replication_vars,
                         membership_vars, failover_vars, rebalance_vars,
                         ringlog, coordinator_vars, local_vars>>
    \/ \E t \in Threads :
          /\ ForEachUnlock(t)
          /\ UNCHANGED <<engine_vars, quorum_vars, wal_vars, replication_vars,
                         membership_vars, failover_vars, rebalance_vars,
                         ringlog, coordinator_vars, local_vars>>
    \/ \E t \in Threads :
          /\ MigrateBatchSet(t)
          /\ UNCHANGED <<engine_vars, quorum_vars, wal_vars, replication_vars,
                         membership_vars, failover_vars, rebalance_vars,
                         ringlog, coordinator_vars, local_vars>>
    \/ \E t \in Threads :
          /\ MigrateBatchReturn(t)
          /\ UNCHANGED <<engine_vars, quorum_vars, wal_vars, replication_vars,
                         membership_vars, failover_vars, rebalance_vars,
                         ringlog, coordinator_vars, local_vars>>

\* C25: no engine shard lock is held by a thread while that thread has a
\* network call in progress.
C25_NoShardLockAcrossNetwork ==
    \A t \in Threads :
       net[t] => \A x \in 1 .. Len(held[t]) : held[t][x][1] # "shard"

\* C26: locks are taken in the order ring, engine shard, WAL, replication
\* queue: every lock a thread holds ranks below the locks it took later, so
\* no thread takes the ring lock while holding a shard lock.
C26_LockOrder ==
    \A t \in Threads :
       \A x, y \in 1 .. Len(held[t]) :
          x < y => LockRank(held[t][x]) < LockRank(held[t][y])

-----------------------------------------------------------------------------
(* The ring under sequences of add_node and remove_node (hash_ring.cpp) *)

MaxRingOps == 5

\* node ids handed to the ring; the identifier "n4:0" of the fourth hashes
\* to the position of "n3:1"
RingNodeIds == NodeIds \cup {"n4"}

NoRingOp == [op |-> "none", node_id |-> NoNode, result |-> FALSE]

RingLogInit == ringlog = [ops |-> 0, last |-> NoRingOp]

\* a call of HashRing::add_node; it returns false for a member
RingAddNode(id) ==
    /\ ringlog.ops < MaxRingOps
    /\ ring_' = add_node(ring_, id)
    /\ ringlog' = [ops |-> ringlog.ops + 1,
                   last |-> [op |-> "add_node", node_id |-> id,
                             result |-> id \notin ring_.nodes_]]
    /\ UNCHANGED <<failovers_, total_failovers_, fo, flog>>

\* a call of HashRing::remove_node; it returns false for a non-member
RingRemoveNode(id) ==
    /\ ringlog.ops < MaxRingOps
    /\ ring_' = remove_node(ring_, id)
    /\ ringlog' = [ops |-> ringlog.ops + 1,
                   last |-> [op |-> "remove_node", node_id |-> id,
                             result |-> id \in ring_.nodes_]]
    /\ UNCHANGED <<failovers_, total_failovers_, fo, flog>>

RingNext ==
    \/ \E id \in RingNodeIds :
          /\ RingAddNode(id)
          /\ UNCHANGED <<engine_vars, quorum_vars, wal_vars, replication_vars,
                         membership_vars, rebalance_vars, lock_vars,
                         coordinator_vars, local_vars>>
    \/ \E id \in RingNodeIds :
          /\ RingRemoveNode(id)
          /\ UNCHANGED <<engine_vars, quorum_vars, wal_vars, replication_vars,
                         membership_vars, rebalance_vars, lock_vars,
                         coordinator_vars, local_vars>>

\* C27: after any sequence of add_node and remove_node calls the ring is
\* empty exactly when it has no nodes, and every member node owns exactly
\* virtual_nodes_per_node ring positions.
C27_RingPositionsPerMember ==
    /\ ring_.ring_ = {} <=> ring_.nodes_ = {}
    /\ \A n \in ring_.nodes_ :
          Cardinality({v \in ring_.ring_ : v.node_id = n})
             = virtual_nodes_per_node

-----------------------------------------------------------------------------
(* Coordinator (coordinator_server.cpp) *)

MaxCoordOps == 3
MaxRestarts == 1

\* CoordinatorServer::NodeState; the coordinator never sets a status other
\* than "HEALTHY"
NoNodeState == [present |-> FALSE, status |-> "HEALTHY", last_heartbeat |-> 0]

NoStateFile == [exists |-> FALSE, ring_version |-> 0, nodes |-> {}]

NoResponse ==
    [rpc |-> "none", node_id |-> NoNode, success |-> FALSE,
     ring_version |-> 0, ring_changed |-> FALSE, known |-> 0, at |-> 0,
     before |-> [nodes |-> {}, ring_version |-> 0]]

\* the members of the coordinator's nodes_
Registered(c) == {n \in NodeIds : c.nodes_[n].present}

\* CoordinatorServer::SaveState: the JSON text written to
\* config_.storage_path: the ring version and each node's id and status
SaveState(c) ==
    [exists |-> TRUE, ring_version |-> c.ring_version_,
     nodes |-> {[id |-> n, status |-> c.nodes_[n].status] :
                   n \in Registered(c)}]

\* CoordinatorServer::LoadState: the file is opened and closed again;
\* nothing of it is parsed into nodes_, ring_ or ring_version_
LoadState(c, file) == c

\* CoordinatorServer::CoordinatorServer: ring_version_(1), an empty ring,
\* then LoadState()
NewCoordinator(file) ==
    LoadState([nodes_ |-> [n \in NodeIds |-> NoNodeState],
               ring_ |-> EmptyRing, ring_version_ |-> 1], file)

CoordinatorInit ==
    /\ state_file = NoStateFile
    /\ coordinator = NewCoordinator(NoStateFile)
    /\ peers = [n \in NodeIds |-> 0]
    /\ clog = [ops |-> 0, restarts |-> 0, last |-> NoResponse]

\* CoordinatorServer::RegisterNode; the node learns the ring version from
\* the response
CoordinatorRegisterNode(id) ==
    /\ clog.ops < MaxCoordOps
    /\ \E c \in {[coordinator EXCEPT
                    !.nodes_[id] = [present |-> TRUE, status |-> "HEALTHY",
                                    last_heartbeat |-> now],
                    !.ring_ = IF coordinator.nodes_[id].present
                              THEN @ ELSE add_node(@, id),
                    !.ring_version_ = IF coordinator.nodes_[id].present
                                      THEN @ ELSE @ + 1]} :
          /\ coordinator' = c
          /\ state_file' = IF coordinator.nodes_[id].present
                           THEN state_file ELSE SaveState(c)
          /\ peers' = [peers EXCEPT ![id] = c.ring_version_]
          /\ clog' = [clog EXCEPT
                !.ops = @ + 1,
                !.last = [NoResponse EXCEPT
                             !.rpc = "RegisterNode", !.node_id = id,
                             !.success = TRUE,
                             !.ring_version = c.ring_version_, !.at = now]]

\* CoordinatorServer::Heartbeat; known is the ring version the node learned
\* from the last response it received
Heartbeat(id) ==
    /\ clog.ops < MaxCoordOps
    /\ IF ~coordinator.nodes_[id].present
       THEN /\ clog' = [clog EXCEPT
                  !.ops = @ + 1,
                  !.last = [NoResponse EXCEPT
                               !.rpc = "Heartbeat", !.node_id = id,
                               !.known = peers[id], !.at = now]]
            /\ UNCHANGED <<coordinator, peers>>
       ELSE /\ coordinator' = [coordinator EXCEPT
                  !.nodes_[id].last_heartbeat = now,
                  !.nodes_[id].status = "HEALTHY"]
            /\ clog' = [clog EXCEPT
                  !.ops = @ + 1,
                  !.last = [NoResponse EXCEPT
                               !.rpc = "Heartbeat", !.node_id = id,
                               !.success = TRUE,
                               !.ring_version = coordinator.ring_version_,
                               !.ring_changed = FALSE,
                               !.known = peers[id], !.at = now]]
            /\ peers' = [peers EXCEPT ![id] = coordinator.ring_version_]
    /\ UNCHANGED state_file

\* CoordinatorServer::AddNode (admin)
CoordinatorAddNode(id) ==
    /\ clog.ops < MaxCoordOps
    /\ IF coordinator.nodes_[id].present
       THEN /\ clog' = [clog EXCEPT
                  !.ops = @ + 1,
                  !.last = [NoResponse EXCEPT !.rpc = "AddNode",
                                              !.node_id = id, !.at = now]]
            /\ UNCHANGED <<coordinator, state_file>>
       ELSE \E c \in {[coordinator EXCEPT
                         !.nodes_[id] = [present |-> TRUE,
                                         status |-> "HEALTHY",
                                         last_heartbeat |-> now],
                         !.ring_ = add_node(@, id),
                         !.ring_version_ = @ + 1]} :
               /\ coordinator' = c
               /\ state_file' = SaveState(c)
               /\ clog' = [clog EXCEPT
                     !.ops = @ + 1,
                     !.last = [NoResponse EXCEPT
                                  !.rpc = "AddNode", !.node_id = id,
                                  !.success = TRUE,
                                  !.ring_version = c.ring_version_,
                                  !.at = now]]
    /\ UNCHANGED peers

\* CoordinatorServer::RemoveNode (admin)
CoordinatorRemoveNode(id) ==
    /\ clog.ops < MaxCoordOps
    /\ IF ~coordinator.nodes_[id].present
       THEN /\ clog' = [clog EXCEPT
                  !.ops = @ + 1,
                  !.last = [NoResponse EXCEPT !.rpc = "RemoveNode",
                                              !.node_id = id, !.at = now]]
            /\ UNCHANGED <<coordinator, state_file>>
       ELSE \E c \in {[coordinator EXCEPT
                         !.nodes_[id] = NoNodeState,
                         !.ring_ = remove_node(@, id),
                         !.ring_version_ = @ + 1]} :
               /\ coordinator' = c
               /\ state_file' = SaveState(c)
               /\ clog' = [clog EXCEPT
                     !.ops = @ + 1,
                     !.last = [NoResponse EXCEPT
                                  !.rpc = "RemoveNode", !.node_id = id,
                                  !.success = TRUE,
                                  !.ring_version = c.ring_version_,
                                  !.at = now]]
    /\ UNCHANGED peers

\* the coordinator process ends and a new CoordinatorServer is constructed
\* with the same config_.storage_path
CoordinatorRestart ==
    /\ clog.restarts < MaxRestarts
    /\ coordinator' = NewCoordinator(state_file)
    /\ clog' = [clog EXCEPT
          !.restarts = @ + 1,
          !.last = [NoResponse EXCEPT
                       !.rpc = "restart", !.at = now,
                       !.before = [nodes |-> Registered(coordinator),
                                   ring_version |->
                                      coordinator.ring_version_]]]
    /\ UNCHANGED <<state_file, peers>>

CoordinatorNext ==
    \/ Tick /\ UNCHANGED <<engine_only_vars, quorum_vars, wal_vars,
                           cluster_vars>>
    \/ \E id \in NodeIds :
          /\ CoordinatorRegisterNode(id)
          /\ UNCHANGED <<engine_vars, quorum_vars, wal_vars, replication_vars,
                         membership_vars, failover_vars, rebalance_vars,
                         lock_vars, ringlog, local_vars>>
    \/ \E id \in NodeIds :
          /\ Heartbeat(id)
          /\ UNCHANGED <<engine_vars, quorum_vars, wal_vars, replication_vars,
                         membership_vars, failover_vars, rebalance_vars,
                         lock_vars, ringlog, local_vars>>
    \/ \E id \in NodeIds :
          /\ CoordinatorAddNode(id)
          /\ UNCHANGED <<engine_vars, quorum_vars, wal_vars, replication_vars,
                         membership_vars, failover_vars, rebalance_vars,
                         lock_vars, ringlog, local_vars>>
    \/ \E id \in NodeIds :
          /\ CoordinatorRemoveNode(id)
          /\ UNCHANGED <<engine_vars, quorum_vars, wal_vars, replication_vars,
                         membership_vars, failover_vars, rebalance_vars,
                         lock_vars, ringlog, local_vars>>
    \/ CoordinatorRestart
       /\ UNCHANGED <<engine_vars, quorum_vars, wal_vars, replication_vars,
                      membership_vars, failover_vars, rebalance_vars,
                      lock_vars, ringlog, local_vars>>
    \/ \E failed_node_id \in FailedNodes :
          /\ InitiateFailover("t1", failed_node_id)
          /\ UNCHANGED <<engine_vars, quorum_vars, wal_vars, admin_vars,
                         replication_vars, membership_vars>>
    \/ StoreFailover("t1")
       /\ UNCHANGED <<engine_vars, quorum_vars, wal_vars, admin_vars,
                      replication_vars, membership_vars>>
    \/ ExecuteFailover("t1")
       /\ UNCHANGED <<engine_vars, quorum_vars, wal_vars, admin_vars,
                      replication_vars, membership_vars>>

\* C28: the ring's version counter increases on every successful ring
\* mutation: whenever a step adds a node to or removes one from the
\* coordinator's ring or a node's ring (the failover step that removes the
\* dead node included), the ring version after the step is higher.
C28_RingVersionIncreasesOnMutation ==
    [][((coordinator'.ring_ # coordinator.ring_ \/ ring_' # ring_)
          /\ clog'.restarts = clog.restarts)
         => coordinator'.ring_version_ > coordinator.ring_version_
      ]_<<coordinator, ring_, clog>>

\* C29: a coordinator restarted on its state file comes up with the node set
\* and the ring version it had before the restart; with no state file it
\* starts with an empty cluster.
C29_RestartRestoresState ==
    clog.last.rpc = "restart" =>
       IF state_file.exists
       THEN /\ Registered(coordinator) = clog.last.before.nodes
            /\ coordinator.ring_.nodes_ = clog.last.before.nodes
            /\ coordinator.ring_version_ = clog.last.before.ring_version
       ELSE /\ Registered(coordinator) = {}
            /\ coordinator.ring_ = EmptyRing

\* C30: a heartbeat from a registered node succeeds, refreshes the node's
\* last-seen time and returns the current ring version and a flag that is
\* true exactly when the ring version differs from the one the node last
\* knew (the one it learned from its registration or its previous
\* heartbeat).
C30_HeartbeatReportsRingChange ==
    (clog.last.rpc = "Heartbeat"
       /\ coordinator.nodes_[clog.last.node_id].present
       /\ clog.last.known # 0) =>
       /\ clog.last.success
       /\ coordinator.nodes_[clog.last.node_id].last_heartbeat = clog.last.at
       /\ clog.last.ring_version = coordinator.ring_version_
       /\ clog.last.ring_changed
             = (clog.last.known # coordinator.ring_version_)

-----------------------------------------------------------------------------
(* ShardedHashTable under memory pressure: set, get, del, compare_and_swap *)
(* and clear on a table whose cap holds two small entries.                 *)

\* "k1" and "k3" hash to shard 0, "k2" to shard 1
EvictionKeys == {"k1", "k2", "k3"}

\* An entry of this value takes 15 bytes: two fit under the cap, three do not
SmallValue == "aaaaa"

\* An entry of this value takes 41 bytes, more than max_memory_bytes
BigValue == "xxxxxxxxxxxxxxxxxxxxxxxxxxxxxxx"

EvictionValues == {SmallValue, BigValue}

\* calls on the table in all
MaxEvOps == 4

\* clear() calls in all
MaxClears == 1

NoEvOp == [op |-> "none", key |-> "", size |-> 0, success |-> FALSE,
           evicted |-> {}, before |-> <<>>, present_before |-> {}]

EvictionInit ==
    /\ table = [EmptyEngine EXCEPT !.data = [k \in EvictionKeys |-> NoEntry]]
    /\ clearing = [pc |-> "idle", shard |-> 0]
    /\ evlog = [ops |-> 0, clears |-> 0, equal |-> TRUE, last |-> NoEvOp,
                recency |-> <<>>]

\* The keys the table holds
StoredKeys(eng) == {k \in DOMAIN eng.data : eng.data[k].present}

\* The bytes the stored entries take: the sum of their total_size()
StoredBytes(eng) ==
    LET RECURSIVE Sum(_)
        Sum(S) == IF S = {} THEN 0
                  ELSE LET k == CHOOSE x \in S : TRUE
                       IN  total_size(k, eng.data[k]) + Sum(S \ {k})
    IN  Sum(StoredKeys(eng))

\* The access order after a call: keys no longer stored drop out
Recent(eng, order) == SelectSeq(order, LAMBDA x : x \in StoredKeys(eng))

\* ShardedHashTable::set(key, entry): always returns true
EvSet(k, v) ==
    /\ evlog.ops < MaxEvOps
    /\ \E after \in {EngineSet(table, k, NewCacheEntry(v, Nullopt, now))} :
          /\ table' = after
          /\ evlog' = [evlog EXCEPT
                !.ops = @ + 1,
                !.equal = @ /\ v = SmallValue,
                !.last = [op |-> "set", key |-> k,
                          size |-> total_size(k, after.data[k]),
                          success |-> TRUE,
                          evicted |-> StoredKeys(table) \ StoredKeys(after),
                          before |-> evlog.recency,
                          present_before |-> StoredKeys(table)],
                !.recency = Recent(after, MoveToFront(evlog.recency, k))]
    /\ UNCHANGED clearing

\* ShardedHashTable::get(key): a hit moves the key to the front of its
\* shard's LRU list
EvGet(k) ==
    /\ evlog.ops < MaxEvOps
    /\ table' = EngineTouch(table, k, now)
    /\ evlog' = [evlog EXCEPT
          !.ops = @ + 1,
          !.last = [NoEvOp EXCEPT !.op = "get", !.key = k,
                       !.success = EngineGet(table, k, now).present,
                       !.before = evlog.recency,
                       !.present_before = StoredKeys(table)],
          !.recency = IF EngineGet(table, k, now).present
                      THEN MoveToFront(@, k) ELSE @]
    /\ UNCHANGED clearing

\* ShardedHashTable::del(key)
EvDel(k) ==
    /\ evlog.ops < MaxEvOps
    /\ table' = EngineDel(table, k)
    /\ evlog' = [evlog EXCEPT
          !.ops = @ + 1,
          !.last = [NoEvOp EXCEPT !.op = "del", !.key = k,
                       !.success = table.data[k].present,
                       !.before = evlog.recency,
                       !.present_before = StoredKeys(table)],
          !.recency = Remove(@, k)]
    /\ UNCHANGED clearing

\* ShardedHashTable::compare_and_swap(key, expected_version, new_entry)
EvCAS(k, expected_version, v) ==
    /\ evlog.ops < MaxEvOps
    /\ \E r \in {EngineCAS(table, k, expected_version,
                           NewCacheEntry(v, Nullopt, now), now)} :
          /\ table' = r.eng
          /\ evlog' = [evlog EXCEPT
                !.ops = @ + 1,
                !.equal = @ /\ (r.result.success => v = SmallValue),
                !.last = [NoEvOp EXCEPT !.op = "cas", !.key = k,
                             !.success = r.result.success,
                             !.before = evlog.recency,
                             !.present_before = StoredKeys(table)],
                !.recency = IF r.result.success
                            THEN MoveToFront(@, k) ELSE @]
    /\ UNCHANGED clearing

\* clear(), one iteration of its loop: the shard is emptied under its own
\* lock, which is released at the end of the iteration
ClearShard ==
    /\ clearing.pc \in {"idle", "loop"}
    /\ clearing.pc = "idle" => evlog.clears < MaxClears
    /\ \E s \in {IF clearing.pc = "idle" THEN 0 ELSE clearing.shard} :
          /\ table' = [table EXCEPT
                !.data = [k \in DOMAIN table.data |->
                            IF get_shard_index(k) = s THEN NoEntry
                            ELSE table.data[k]],
                !.lru_list[s] = <<>>,
                !.memory_bytes[s] = 0]
          /\ clearing' = IF s + 1 = num_shards
                         THEN [pc |-> "store", shard |-> 0]
                         ELSE [pc |-> "loop", shard |-> s + 1]
          /\ evlog' = [evlog EXCEPT
                !.recency = SelectSeq(@, LAMBDA x : get_shard_index(x) # s)]

\* clear(), after the loop: both totals are stored as 0, no lock held
ClearStore ==
    /\ clearing.pc = "store"
    /\ table' = [table EXCEPT !.total_memory_bytes = 0,
                              !.total_entries = 0]
    /\ clearing' = [pc |-> "idle", shard |-> 0]
    /\ evlog' = [evlog EXCEPT !.clears = @ + 1,
                              !.last = [NoEvOp EXCEPT !.op = "clear"]]

OtherThanEviction ==
    <<engine_vars, quorum_vars, wal_vars, replication_vars, membership_vars,
      failover_vars, rebalance_vars, lock_vars, ringlog, coordinator_vars,
      reentry_vars, stats_vars>>

EvictionNext ==
    \/ \E k \in EvictionKeys, v \in EvictionValues :
          EvSet(k, v) /\ UNCHANGED OtherThanEviction
    \/ \E k \in EvictionKeys : EvGet(k) /\ UNCHANGED OtherThanEviction
    \/ \E k \in EvictionKeys : EvDel(k) /\ UNCHANGED OtherThanEviction
    \/ \E k \in EvictionKeys, expected_version \in Versions,
          v \in EvictionValues :
          EvCAS(k, expected_version, v) /\ UNCHANGED OtherThanEviction
    \/ ClearShard /\ UNCHANGED OtherThanEviction
    \/ ClearStore /\ UNCHANGED OtherThanEviction

\* C31: after a SET returns, the memory the engine holds never exceeds the
\* cap: a SET whose entry cannot be made to fit by eviction fails and is
\* not stored.
C31_SetKeepsMemoryUnderCap ==
    evlog.last.op = "set" =>
        /\ StoredBytes(table) <= max_memory_bytes
        /\ evlog.last.size > max_memory_bytes =>
              (~evlog.last.success /\ evlog.last.key \notin StoredKeys(table))

\* A SET of a 41-byte entry into the 40-byte table has returned
C31_OversizedSetReturned ==
    /\ evlog.last.op = "set"
    /\ evlog.last.size > max_memory_bytes

\* The place of a key in the access order: 1 is the most recently used
AccessRank(order, k) == CHOOSE i \in 1 .. Len(order) : order[i] = k

\* C32: when a table filled with equal-size entries goes over the cap, the
\* keys that survive are the most recently accessed ones: no key is evicted
\* by a SET while a key used less recently than it stays stored.
C32_EvictsLeastRecentlyUsed ==
    (/\ evlog.last.op = "set"
     /\ evlog.equal
     /\ evlog.clears = 0 /\ clearing.pc = "idle"
     /\ evlog.last.evicted # {}) =>
        \A x \in evlog.last.evicted :
            \A y \in (evlog.last.present_before \cap StoredKeys(table))
                        \ {evlog.last.key} :
                AccessRank(evlog.last.before, y)
                    < AccessRank(evlog.last.before, x)

\* A SET of a third equal-size entry has evicted a key
C32_EvictionHappened ==
    /\ evlog.last.op = "set"
    /\ evlog.equal
    /\ evlog.clears = 0 /\ clearing.pc = "idle"
    /\ evlog.last.evicted # {}

\* C33: at every quiescent point (no call on the table is in progress),
\* after any interleaving of SET, CAS, DELETE, eviction and clear, the
\* reported memory usage is the sum of total_size() over the stored
\* entries and the reported size is the number of stored entries.
C33_CountersMatchContents ==
    clearing.pc = "idle" =>
        /\ table.total_memory_bytes = StoredBytes(table)
        /\ table.total_entries = Cardinality(StoredKeys(table))

\* A clear() has returned after other calls ran while it was in progress
C33_ClearInterleaved ==
    /\ clearing.pc = "idle"
    /\ evlog.clears > 0
    /\ evlog.last.op = "clear"
    /\ StoredKeys(table) # {}

-----------------------------------------------------------------------------
(* Claims about the responses a quorum read counts and repairs *)

\* C34: the replicas a successful QuorumRead names for read-repair are
\* exactly the replicas whose own response carried a version lower than
\* the returned one, also when another replica timed out, failed or
\* reported the key missing.
C34_RepairTargetsAreTheStaleReplicas ==
    (qobs.op = "read" /\ qres.success) => qobs.named = qobs.lower

\* A successful read saw a lower version while another replica gave no hit
C34_StaleBehindSilentReplica ==
    /\ qobs.op = "read" /\ qres.success
    /\ qobs.lower # {}
    /\ Len(qobs.responses) < total_replicas

\* C38: a replica that answers "key not found" counts as a response toward
\* R: with W + R > N and every replica answering in time, a QuorumRead that
\* follows a successful QuorumWrite of a new key succeeds, although up to
\* N - W replicas do not hold the key.
C38_NotFoundCountsTowardR ==
    (/\ config_.write_quorum + config_.read_quorum > config_.total_replicas
     /\ qobs.op = "read"
     /\ qobs.after_new_write
     /\ qobs.all_answered
     /\ qobs.missing <= config_.total_replicas - config_.write_quorum) =>
        qres.success

\* Every replica answered a read that follows the write of a new key, and
\* one of them does not hold the key
C38_ReadWithMissingReplica ==
    /\ qobs.op = "read"
    /\ qobs.after_new_write
    /\ qobs.all_answered
    /\ qobs.missing > 0
    /\ qobs.missing <= config_.total_replicas - config_.write_quorum

\* The configurations a coordinator over three replicas is constructed
\* with here: every W and R with W + R > N
QuorumConfigs ==
    {c \in [write_quorum : 1 .. total_replicas,
            read_quorum : 1 .. total_replicas,
            total_replicas : {total_replicas}] :
        c.write_quorum + c.read_quorum > c.total_replicas}

\* Writes and reads of one key through a coordinator of any such
\* configuration
QuorumConfigNext ==
    \/ Tick /\ UNCHANGED <<engine_only_vars, quorum_vars, wal_vars,
                           cluster_vars>>
    \/ \E ttl \in QTTLs, out \in OutcomeVectors :
          QuorumWrite(QValue(qops), ttl, out)
             /\ UNCHANGED <<engine_only_vars, wal_vars, cluster_vars>>
    \/ \E out \in OutcomeVectors :
          QuorumRead(out)
             /\ UNCHANGED <<engine_only_vars, wal_vars, cluster_vars>>

-----------------------------------------------------------------------------
(* Claims about calls that must return *)

\* C35: every append to an open log under sync_on_write returns, with true
\* or false: the call never blocks forever while it syncs.
C35_AppendReturns ==
    (sync_on_write /\ wlog.last_append.called) =>
        wlog.last_append.result \in {"true", "false"}

\* An append under sync_on_write has written its record and reached Sync
C35_AppendReachedSync ==
    /\ sync_on_write
    /\ wlog.last_append.called
    /\ wlog.last_append.written

-----------------------------------------------------------------------------
(* Manager methods that take a std::mutex and call, while they hold it,   *)
(* another method that takes the same mutex: SnapshotManager               *)
(* (snapshots_mutex_) and HashRing (mutex_).                               *)

MutexNames ==
    {"snapshots_mutex_", "ring_mutex_", "nodes_mutex_",
     "membership_callback_mutex_", "failovers_mutex_",
     "failover_callback_mutex_"}

NoThread == ""

\* manager calls entered in all
MaxCalls == 3

\* a thread outside every call
NoCall == [fn |-> "none", pc |-> "", stuck |-> FALSE, id |-> Nullopt,
           keys |-> <<>>, i |-> 0, new_node |-> FALSE, affected |-> <<>>,
           query |-> "", answer |-> FALSE]

NoReturn == [fn |-> "none", result |-> FALSE, id |-> Nullopt,
             affected |-> <<>>, listed |-> <<>>]

ReentryInit ==
    /\ owner = [m \in MutexNames |-> NoThread]
    /\ call = [t \in Threads |-> NoCall]
    /\ callback_ = FALSE
    /\ retlog = [calls |-> 0, last |-> NoReturn]

\* std::lock_guard's constructor on a mutex no thread holds; while another
\* thread holds it the caller waits
Free(m) == owner[m] = NoThread

\* std::lock_guard's destructor
Unlocked(own, m) == [own EXCEPT ![m] = NoThread]

\* std::sort of snapshots_ by timestamp, latest first
RECURSIVE LatestFirst(_)
LatestFirst(list) ==
    IF list = <<>> THEN <<>>
    ELSE LET m == Latest(list)
             at == CHOOSE i \in 1 .. Len(list) : list[i] = m
         IN  <<m>> \o LatestFirst(SubSeq(list, 1, at - 1)
                                    \o SubSeq(list, at + 1, Len(list)))

\* SnapshotManager::RestoreFromLatest up to its call of
\* RestoreFromSnapshot: snapshots_mutex_ is taken and kept
RestoreFromLatest(t) ==
    /\ call[t] = NoCall
    /\ retlog.calls < MaxCalls
    /\ Free("snapshots_mutex_")
    /\ IF snapshots_ = <<>>
       THEN /\ retlog' = [calls |-> retlog.calls + 1,
                          last |-> [NoReturn EXCEPT
                                       !.fn = "RestoreFromLatest"]]
            /\ UNCHANGED <<owner, call, snapshots_>>
       ELSE /\ owner' = [owner EXCEPT !["snapshots_mutex_"] = t]
            /\ snapshots_' = LatestFirst(snapshots_)
            /\ call' = [call EXCEPT
                  ![t] = [NoCall EXCEPT !.fn = "RestoreFromLatest",
                                        !.pc = "GetSnapshotMetadata",
                                        !.id = LatestFirst(snapshots_)[1]]]
            /\ retlog' = [retlog EXCEPT !.calls = @ + 1]
    /\ UNCHANGED <<callback_, storage, snap_disk>>

\* RestoreFromSnapshot calls GetSnapshotMetadata, whose lock_guard locks
\* snapshots_mutex_ again on the thread that holds it; relock says what
\* that does: "deadlock" (the thread waits for itself) or "returns" (the
\* lock is granted and released again when GetSnapshotMetadata returns)
GetSnapshotMetadata(t, relock) ==
    /\ call[t].fn = "RestoreFromLatest"
    /\ call[t].pc = "GetSnapshotMetadata"
    /\ ~call[t].stuck
    /\ IF owner["snapshots_mutex_"] = t /\ relock = "deadlock"
       THEN /\ call' = [call EXCEPT ![t].stuck = TRUE]
            /\ UNCHANGED owner
       ELSE /\ owner["snapshots_mutex_"] \in {t, NoThread}
            /\ owner' = Unlocked(owner, "snapshots_mutex_")
            /\ call' = [call EXCEPT ![t].pc = "restore"]
    /\ UNCHANGED <<callback_, retlog, storage, snap_disk, snapshots_>>

\* RestoreFromSnapshot after the lookup: the file is read and every entry
\* set; RestoreFromLatest returns and its lock_guard unlocks
RestoreFromSnapshot(t) ==
    /\ call[t].fn = "RestoreFromLatest"
    /\ call[t].pc = "restore"
    /\ \E found \in {/\ \E i \in 1 .. Len(snapshots_) :
                            snapshots_[i] = call[t].id
                     /\ snap_disk[call[t].id].exists} :
          /\ storage' = IF found
                        THEN RestoreEntries(storage,
                                            snap_disk[call[t].id].entries, 1)
                        ELSE storage
          /\ retlog' = [retlog EXCEPT
                !.last = [NoReturn EXCEPT !.fn = "RestoreFromLatest",
                                          !.result = found,
                                          !.id = call[t].id,
                                          !.listed = snapshots_]]
    /\ owner' = Unlocked(owner, "snapshots_mutex_")
    /\ call' = [call EXCEPT ![t] = NoCall]
    /\ UNCHANGED <<callback_, snap_disk, snapshots_>>

\* SnapshotManager::CreateSnapshot, which pushes the metadata under
\* snapshots_mutex_
TakeSnapshot ==
    /\ Free("snapshots_mutex_")
    /\ CreateSnapshot
    /\ UNCHANGED reentry_vars

\* The node stores a key it does not hold yet (ShardedHashTable::set)
StoreKey(k) ==
    /\ ~storage.data[k].present
    /\ storage' = EngineSet(storage, k, NewCacheEntry("a", Nullopt, now))

\* The key lists get_affected_keys is called with
KeyLists == {<<>>, <<"k1">>, <<"k1", "k2">>}

\* HashRing::get_affected_keys up to its first get_node: mutex_ is taken
\* and kept; with no key the loop does not run and the call returns
GetAffectedKeys(t, keys, new_node) ==
    /\ call[t] = NoCall
    /\ retlog.calls < MaxCalls
    /\ Free("ring_mutex_")
    /\ IF keys = <<>>
       THEN /\ retlog' = [calls |-> retlog.calls + 1,
                          last |-> [NoReturn EXCEPT
                                       !.fn = "get_affected_keys",
                                       !.result = TRUE]]
            /\ UNCHANGED <<owner, call>>
       ELSE /\ owner' = [owner EXCEPT !["ring_mutex_"] = t]
            /\ call' = [call EXCEPT
                  ![t] = [NoCall EXCEPT !.fn = "get_affected_keys",
                                        !.pc = "get_node",
                                        !.keys = keys, !.i = 1,
                                        !.new_node = new_node]]
            /\ retlog' = [retlog EXCEPT !.calls = @ + 1]
    /\ UNCHANGED callback_

\* The loop body: get_node(key) locks mutex_ again on the thread that
\* holds it (relock as above); then the key is recorded if a node is
\* being added
GetNodeOfKey(t, relock) ==
    /\ call[t].fn = "get_affected_keys"
    /\ call[t].pc = "get_node"
    /\ ~call[t].stuck
    /\ IF owner["ring_mutex_"] = t /\ relock = "deadlock"
       THEN /\ call' = [call EXCEPT ![t].stuck = TRUE]
            /\ UNCHANGED owner
       ELSE /\ owner["ring_mutex_"] \in {t, NoThread}
            /\ owner' = Unlocked(owner, "ring_mutex_")
            /\ call' = [call EXCEPT
                  ![t].affected = IF call[t].new_node
                                  THEN Append(@, call[t].keys[call[t].i])
                                  ELSE @,
                  ![t].i = @ + 1,
                  ![t].pc = IF call[t].i = Len(call[t].keys)
                            THEN "return" ELSE "get_node"]
    /\ UNCHANGED <<callback_, retlog>>

\* get_affected_keys returns the keys recorded; its lock_guard unlocks
GetAffectedKeysReturn(t) ==
    /\ call[t].fn = "get_affected_keys"
    /\ call[t].pc = "return"
    /\ owner' = Unlocked(owner, "ring_mutex_")
    /\ retlog' = [retlog EXCEPT
          !.last = [NoReturn EXCEPT !.fn = "get_affected_keys",
                                    !.result = TRUE,
                                    !.affected = call[t].affected]]
    /\ call' = [call EXCEPT ![t] = NoCall]
    /\ UNCHANGED callback_

OtherThanSnapshots ==
    <<now, service_vars, quorum_vars, wal_disk, wal, phase, sync_on_write,
      wlog, replication_vars, membership_vars, failover_vars, rebalance_vars,
      lock_vars, ringlog, coordinator_vars, eviction_vars, stats_vars>>

OtherThanReentry ==
    <<engine_vars, quorum_vars, wal_vars, replication_vars, membership_vars,
      failover_vars, rebalance_vars, lock_vars, ringlog, coordinator_vars,
      eviction_vars, stats_vars>>

ReentryNext ==
    \/ Tick /\ UNCHANGED <<engine_only_vars, quorum_vars, wal_vars,
                           cluster_vars>>
    \/ TakeSnapshot /\ UNCHANGED <<service_vars, quorum_vars, cluster_vars>>
    \/ \E k \in Keys :
          StoreKey(k) /\ UNCHANGED <<now, service_vars, quorum_vars, wal_vars,
                                     cluster_vars>>
    \/ \E t \in Threads : RestoreFromLatest(t) /\ UNCHANGED OtherThanSnapshots
    \/ \E t \in Threads, relock \in Relocks :
          GetSnapshotMetadata(t, relock) /\ UNCHANGED OtherThanSnapshots
    \/ \E t \in Threads : RestoreFromSnapshot(t) /\ UNCHANGED OtherThanSnapshots
    \/ \E t \in Threads, keys \in KeyLists, new_node \in BOOLEAN :
          GetAffectedKeys(t, keys, new_node) /\ UNCHANGED OtherThanReentry
    \/ \E t \in Threads, relock \in Relocks :
          GetNodeOfKey(t, relock) /\ UNCHANGED OtherThanReentry
    \/ \E t \in Threads :
          GetAffectedKeysReturn(t) /\ UNCHANGED OtherThanReentry

\* C36: RestoreFromLatest with at least one snapshot recorded returns,
\* after restoring from the snapshot with the newest timestamp: it never
\* blocks forever on the lock of the snapshot list.
C36_RestoreFromLatestReturns ==
    /\ \A t \in Threads :
          call[t].fn = "RestoreFromLatest" => ~call[t].stuck
    /\ (retlog.last.fn = "RestoreFromLatest" /\ retlog.last.listed # <<>>
        /\ retlog.last.result)
          => retlog.last.id = Latest(retlog.last.listed)

\* RestoreFromLatest has found a snapshot recorded and gone on to restore
C36_RestoreEntered ==
    \E t \in Threads :
        /\ call[t].fn = "RestoreFromLatest"
        /\ call[t].id # Nullopt

\* C37: get_affected_keys returns for every non-empty key list: it
\* completes its per-key owner lookups and releases the ring's lock.
C37_GetAffectedKeysReturns ==
    \A t \in Threads :
        call[t].fn = "get_affected_keys" => ~call[t].stuck

\* get_affected_keys has been entered with a key to look up
C37_LookupEntered ==
    \E t \in Threads :
        /\ call[t].fn = "get_affected_keys"
        /\ call[t].keys # <<>>

-----------------------------------------------------------------------------
(* Event callbacks that call back into the manager that invokes them:      *)
(* MembershipManager's node-event callback and FailoverManager's           *)
(* failover-completion callback.                                           *)

\* The thread that runs MembershipManager::HeartbeatWorker
HeartbeatThread == "t1"

\* The thread that calls FailoverManager::InitiateFailover
FailoverThread == "t2"

\* The query methods a callback calls on its manager, per callback
Queries(fn) ==
    IF fn = "event_callback_" THEN {"GetNodeInfo", "IsNodeHealthy"}
    ELSE {"GetFailoverStatus"}

\* The mutex the query method locks
QueryMutex(fn) ==
    IF fn = "event_callback_" THEN "nodes_mutex_" ELSE "failovers_mutex_"

\* The mutex under which the callback is invoked
CallbackMutex(fn) ==
    IF fn = "event_callback_" THEN "membership_callback_mutex_"
    ELSE "failover_callback_mutex_"

\* SetNodeEventCallback, under callback_mutex_
RegisterNodeEventCallback ==
    /\ Free("membership_callback_mutex_")
    /\ SetNodeEventCallback
    /\ UNCHANGED reentry_vars

\* HeartbeatWorker, top of the loop, under nodes_mutex_
HeartbeatScan ==
    /\ call[HeartbeatThread] = NoCall
    /\ Free("nodes_mutex_")
    /\ ScanStart
    /\ UNCHANGED reentry_vars

\* HeartbeatWorker, one peer: nodes_mutex_ is taken, the record updated
\* and, on a status change with a callback registered, UpdateNodeStatus
\* takes callback_mutex_ and invokes the callback with both mutexes held
HeartbeatCheck(healthy) ==
    /\ call[HeartbeatThread] = NoCall
    /\ Free("nodes_mutex_") /\ Free("membership_callback_mutex_")
    /\ CheckNode(healthy)
    /\ IF Len(mlog'.events) > Len(mlog.events)
       THEN /\ owner' = [owner EXCEPT
                  !["nodes_mutex_"] = HeartbeatThread,
                  !["membership_callback_mutex_"] = HeartbeatThread]
            /\ call' = [call EXCEPT
                  ![HeartbeatThread] =
                      [NoCall EXCEPT !.fn = "event_callback_",
                                     !.pc = "running",
                                     !.keys = <<mlog'.last.node>>]]
       ELSE UNCHANGED <<owner, call>>
    /\ UNCHANGED <<callback_, retlog>>

\* FailoverManager::SetFailoverCallback, under callback_mutex_
SetFailoverCallback ==
    /\ ~callback_
    /\ Free("failover_callback_mutex_")
    /\ callback_' = TRUE
    /\ UNCHANGED <<owner, call, retlog>>

\* InitiateFailover stores the record under failovers_mutex_
FailoverStore(t) ==
    /\ Free("failovers_mutex_")
    /\ StoreFailover(t)
    /\ UNCHANGED reentry_vars

\* ExecuteFailover with no callback set: it runs under failovers_mutex_
\* and returns
FailoverExecute(t) ==
    /\ ~callback_
    /\ Free("failovers_mutex_")
    /\ ExecuteFailover(t)
    /\ UNCHANGED reentry_vars

\* ExecuteFailover with a callback set: failovers_mutex_ is taken, the
\* failover completed, and the callback invoked under callback_mutex_
\* with both mutexes held
FailoverNotify(t) ==
    /\ callback_
    /\ call[t] = NoCall
    /\ fo[t].pc = "execute"
    /\ Free("failovers_mutex_") /\ Free("failover_callback_mutex_")
    /\ \E info \in {f \in failovers_ : f.failover_id = fo[t].failover_id} :
          /\ ring_' = UpdateTopology(info.failed_node_id)
          /\ failovers_' = Stored(failovers_,
                [info EXCEPT !.status = "complete", !.in_progress = FALSE])
    /\ fo' = [fo EXCEPT ![t].pc = "callback"]
    /\ owner' = [owner EXCEPT !["failovers_mutex_"] = t,
                              !["failover_callback_mutex_"] = t]
    /\ call' = [call EXCEPT
          ![t] = [NoCall EXCEPT !.fn = "callback_", !.pc = "running"]]
    /\ UNCHANGED <<total_failovers_, flog, callback_, retlog>>

\* The callback calls a query method of its manager, whose lock_guard
\* locks the mutex the invoking thread holds (relock as above)
CallbackQuery(t, query, relock) ==
    /\ call[t].fn \in {"event_callback_", "callback_"}
    /\ call[t].pc = "running"
    /\ ~call[t].stuck
    /\ query \in Queries(call[t].fn)
    /\ \E m \in {QueryMutex(call[t].fn)} :
          IF owner[m] = t /\ relock = "deadlock"
          THEN /\ call' = [call EXCEPT ![t].stuck = TRUE,
                                       ![t].query = query]
               /\ UNCHANGED owner
          ELSE /\ owner[m] \in {t, NoThread}
               /\ owner' = Unlocked(owner, m)
               /\ call' = [call EXCEPT
                     ![t].pc = "queried",
                     ![t].query = query,
                     ![t].answer =
                        IF query = "GetFailoverStatus"
                        THEN \E f \in failovers_ :
                                f.failover_id = fo[t].failover_id
                        ELSE IF query = "GetNodeInfo"
                        THEN nodes_[call[t].keys[1]].present
                        ELSE /\ nodes_[call[t].keys[1]].present
                             /\ nodes_[call[t].keys[1]].status = "HEALTHY"]
    /\ UNCHANGED <<callback_, retlog>>

\* The node-event callback returns: UpdateNodeStatus releases
\* callback_mutex_ and the worker's iteration releases nodes_mutex_
NodeEventCallbackReturn(t) ==
    /\ call[t].fn = "event_callback_"
    /\ call[t].pc \in {"running", "queried"}
    /\ ~call[t].stuck
    /\ owner' = Unlocked(Unlocked(owner, "membership_callback_mutex_"),
                         "nodes_mutex_")
    /\ retlog' = [retlog EXCEPT
          !.last = [NoReturn EXCEPT !.fn = "event_callback_",
                                    !.result = call[t].answer]]
    /\ call' = [call EXCEPT ![t] = NoCall]
    /\ UNCHANGED callback_

\* The failover callback returns: ExecuteFailover releases both mutexes
\* and InitiateFailover returns the id
FailoverCallbackReturn(t) ==
    /\ call[t].fn = "callback_"
    /\ call[t].pc \in {"running", "queried"}
    /\ ~call[t].stuck
    /\ owner' = Unlocked(Unlocked(owner, "failover_callback_mutex_"),
                         "failovers_mutex_")
    /\ retlog' = [retlog EXCEPT
          !.last = [NoReturn EXCEPT !.fn = "callback_",
                                    !.result = call[t].answer]]
    /\ call' = [call EXCEPT ![t] = NoCall]
    /\ fo' = [fo EXCEPT ![t] = Idle]
    /\ flog' = [flog EXCEPT
          !.returned = Append(@, [failed_node_id |-> fo[t].failed_node_id,
                                  failover_id |-> fo[t].failover_id])]
    /\ UNCHANGED <<ring_, failovers_, total_failovers_, callback_>>

OtherThanMembership ==
    <<engine_vars, quorum_vars, wal_vars, replication_vars, failover_vars,
      rebalance_vars, lock_vars, ringlog, coordinator_vars, eviction_vars,
      stats_vars>>

OtherThanFailover ==
    <<engine_vars, quorum_vars, wal_vars, replication_vars, membership_vars,
      rebalance_vars, lock_vars, ringlog, coordinator_vars, eviction_vars,
      stats_vars>>

CallbacksNext ==
    \/ RegisterNodeEventCallback /\ UNCHANGED OtherThanMembership
    \/ HeartbeatScan /\ UNCHANGED OtherThanMembership
    \/ \E healthy \in BOOLEAN :
          HeartbeatCheck(healthy) /\ UNCHANGED OtherThanMembership
    \/ \E t \in Threads :
          NodeEventCallbackReturn(t)
             /\ UNCHANGED <<OtherThanMembership, membership_vars>>
    \/ \E t \in Threads, query \in Queries("event_callback_")
                                      \cup Queries("callback_"),
          relock \in Relocks :
          CallbackQuery(t, query, relock)
             /\ UNCHANGED <<OtherThanMembership, membership_vars>>
    \/ SetFailoverCallback
          /\ UNCHANGED <<OtherThanMembership, membership_vars>>
    \/ \E failed_node_id \in FailedNodes :
          InitiateFailover(FailoverThread, failed_node_id)
             /\ UNCHANGED <<OtherThanFailover, reentry_vars>>
    \/ FailoverStore(FailoverThread) /\ UNCHANGED OtherThanFailover
    \/ FailoverExecute(FailoverThread) /\ UNCHANGED OtherThanFailover
    \/ FailoverNotify(FailoverThread) /\ UNCHANGED OtherThanFailover
    \/ FailoverCallbackReturn(FailoverThread) /\ UNCHANGED OtherThanFailover

\* C40: a registered event callback may call the query methods of the
\* manager that invokes it (GetNodeInfo, IsNodeHealthy, GetFailoverStatus)
\* and the call returns: the invoking thread never waits for a mutex it
\* holds itself.
C40_CallbackMayQueryManager ==
    \A t \in Threads :
        call[t].fn \in {"event_callback_", "callback_"} => ~call[t].stuck

\* A callback has called a query method of its manager
C40_CallbackQueried ==
    \E t \in Threads :
        /\ call[t].fn \in {"event_callback_", "callback_"}
        /\ call[t].query # ""

-----------------------------------------------------------------------------
(* RebalanceOrchestrator::stats_: start_rebalance counts the jobs it has   *)
(* created after it has detached their threads; each job's thread counts   *)
(* its own end.                                                            *)

\* Statistics{}
NewStatistics ==
    [total_jobs |-> 0, successful_jobs |-> 0, failed_jobs |-> 0,
     active_jobs |-> 0, total_keys_migrated |-> 0]

StatsInit ==
    /\ stats_ = NewStatistics
    /\ starting = Nullopt

\* start_rebalance up to the end of its loop: the jobs are in jobs_ and
\* their threads run; with no key to move it returns at once
StartJobs ==
    /\ starting = Nullopt
    /\ start_rebalance
    /\ starting' = IF job_counter_' = job_counter_ THEN Nullopt
                   ELSE job_counter_' - job_counter_
    /\ UNCHANGED stats_

\* start_rebalance, the block under stats_mutex_, and its return
CountJobs ==
    /\ starting # Nullopt
    /\ stats_' = [stats_ EXCEPT !.total_jobs = @ + starting,
                                !.active_jobs = @ + starting]
    /\ starting' = Nullopt

\* execute_job's end: the job is marked complete and counted as
\* successful or failed under stats_mutex_
FinishJob(j) ==
    /\ JobFinish(j)
    /\ stats_' = IF ~jobs_[j].failed
                 THEN [stats_ EXCEPT
                          !.successful_jobs = @ + 1,
                          !.active_jobs = @ - 1,
                          !.total_keys_migrated = @ + jobs_[j].keys_migrated]
                 ELSE [stats_ EXCEPT !.failed_jobs = @ + 1,
                                     !.active_jobs = @ - 1]
    /\ UNCHANGED starting

OtherThanRebalance ==
    <<engine_vars, quorum_vars, wal_vars, replication_vars, membership_vars,
      failover_vars, lock_vars, ringlog, coordinator_vars, eviction_vars,
      reentry_vars>>

StatsNext ==
    \/ StartJobs /\ UNCHANGED OtherThanRebalance
    \/ CountJobs /\ UNCHANGED <<OtherThanRebalance, rebalance_vars>>
    \/ \E j \in JobIds :
          JobCollect(j) /\ UNCHANGED <<OtherThanRebalance, stats_vars>>
    \/ \E j \in JobIds, accepted \in [1 .. batch_size_ -> 0 .. max_replicas] :
          JobBatch(j, accepted) /\ UNCHANGED <<OtherThanRebalance, stats_vars>>
    \/ \E j \in JobIds : FinishJob(j) /\ UNCHANGED OtherThanRebalance

\* C39: whenever the rebalance statistics can be read, active_jobs is not
\* negative and total_jobs = successful_jobs + failed_jobs + active_jobs,
\* also when a job finishes before the call that started it has returned.
C39_StatisticsConsistent ==
    /\ stats_.active_jobs >= 0
    /\ stats_.total_jobs
          = stats_.successful_jobs + stats_.failed_jobs + stats_.active_jobs

\* A job has finished before the call that started it has counted it
C39_JobFinishedBeforeCount ==
    /\ starting # Nullopt
    /\ \E j \in JobIds : jobs_[j].present /\ jobs_[j].completed

-----------------------------------------------------------------------------
(* Specifications *)

vars == <<engine_vars, quorum_vars, wal_vars, cluster_vars>>

\* no orchestrator constructed, no iteration under way
LocalInit == EvictionInit /\ ReentryInit /\ StatsInit

AdminInit ==
    /\ storage_ = {} /\ OrchestratorIdle /\ LockInit /\ RingLogInit
    /\ CoordinatorInit /\ LocalInit

ClusterInit ==
    ReplicationInit /\ MembershipInit /\ FailoverInit /\ AdminInit

\* A node serving requests; the quorum client and the WAL are idle
InitEngine ==
    /\ EngineInit
    /\ QuorumInit
    /\ WALInit /\ ClusterInit
    /\ sync_on_write = TRUE

SpecEngine == InitEngine /\ [][EngineNext]_vars

\* A quorum client over three replicas
InitQuorum ==
    /\ EngineInit
    /\ QuorumInit
    /\ WALInit /\ ClusterInit
    /\ sync_on_write = TRUE

SpecQuorum == InitQuorum /\ [][QuorumNext]_vars

\* A node with its WAL, snapshots and recovery, under either sync_on_write
InitWAL ==
    /\ EngineInit
    /\ QuorumInit
    /\ WALInit /\ ClusterInit

SpecWAL == InitWAL /\ [][WALNext]_vars

\* The same node with sync_on_write at its default
InitRecovery ==
    /\ EngineInit
    /\ QuorumInit
    /\ WALInit /\ ClusterInit
    /\ sync_on_write = TRUE

SpecRecovery == InitRecovery /\ [][RecoveryNext]_vars

InitReplication ==
    EngineInit /\ QuorumInit /\ WALInit /\ ClusterInit /\ sync_on_write = TRUE

SpecReplication == InitReplication /\ [][ReplicationNext]_vars

InitMembership ==
    EngineInit /\ QuorumInit /\ WALInit /\ ClusterInit /\ sync_on_write = TRUE

SpecMembership == InitMembership /\ [][MembershipNext]_vars

InitFailover ==
    EngineInit /\ QuorumInit /\ WALInit /\ ClusterInit /\ sync_on_write = TRUE

SpecFailover == InitFailover /\ [][FailoverNext]_vars

InitPromotion ==
    EngineInit /\ QuorumInit /\ WALInit /\ ClusterInit /\ sync_on_write = TRUE

SpecPromotion == InitPromotion /\ [][PromotionNext]_vars

InitRebalance ==
    /\ EngineInit /\ QuorumInit /\ WALInit /\ ReplicationInit
    /\ MembershipInit /\ FailoverInit /\ RebalanceInit /\ LockInit
    /\ RingLogInit /\ CoordinatorInit /\ LocalInit
    /\ sync_on_write = TRUE

SpecRebalance == InitRebalance /\ [][RebalanceNext]_vars

InitLocks ==
    /\ EngineInit /\ QuorumInit /\ WALInit /\ ReplicationInit
    /\ MembershipInit /\ FailoverInit /\ OrchestratorIdle /\ LockInit
    /\ RingLogInit /\ CoordinatorInit /\ LocalInit
    /\ storage_ \in SUBSET RebalanceKeys
    /\ sync_on_write = TRUE

SpecLocks == InitLocks /\ [][LocksNext]_vars

InitRing ==
    /\ EngineInit /\ QuorumInit /\ WALInit /\ ClusterInit
    /\ sync_on_write = TRUE

SpecRing == InitRing /\ [][RingNext]_vars

InitCoordinator ==
    /\ EngineInit /\ QuorumInit /\ WALInit /\ ClusterInit
    /\ sync_on_write = TRUE

SpecCoordinator == InitCoordinator /\ [][CoordinatorNext]_vars

\* An empty table with a 40-byte cap; calls and one clear() interleave
InitEviction ==
    /\ EngineInit /\ QuorumInit /\ WALInit /\ ClusterInit
    /\ sync_on_write = TRUE

SpecEviction == InitEviction /\ [][EvictionNext]_vars

\* A coordinator constructed with some W and R, W + R > N
InitQuorumConfig ==
    /\ EngineInit /\ QuorumIdle /\ WALInit /\ ClusterInit
    /\ config_ \in QuorumConfigs
    /\ sync_on_write = TRUE

SpecQuorumConfig == InitQuorumConfig /\ [][QuorumConfigNext]_vars

\* A running node with its snapshot manager and its ring; two threads
InitReentry ==
    /\ EngineInit /\ QuorumInit /\ WALInit /\ ClusterInit
    /\ sync_on_write = TRUE

SpecReentry == InitReentry /\ [][ReentryNext]_vars

\* A node's membership and failover managers; callbacks get registered
InitCallbacks ==
    /\ EngineInit /\ QuorumInit /\ WALInit /\ ClusterInit
    /\ sync_on_write = TRUE

SpecCallbacks == InitCallbacks /\ [][CallbacksNext]_vars

\* An orchestrator constructed over any local contents and any pair of
\* rings, its statistics at zero
InitStats ==
    /\ EngineInit /\ QuorumInit /\ WALInit /\ ReplicationInit
    /\ MembershipInit /\ FailoverInit /\ RebalanceInit /\ LockInit
    /\ RingLogInit /\ CoordinatorInit /\ LocalInit
    /\ sync_on_write = TRUE

SpecStats == InitStats /\ [][StatsNext]_vars

====
